---- MODULE Spec2Model ----
(***************************************************************************)
(* OrchTS: the turn loop of OrchTS.run, the tool-call executor             *)
(* (handleToolCalls) and the result normalizer (handleFunctionResult),     *)
(* together with the parts of Agent they use.                              *)
(*                                                                         *)
(* JavaScript objects that can be aliased (the caller's messages array and *)
(* context object, the run's own copies) live in two small heaps, and the  *)
(* locals of run hold references into them, so that "the caller's object   *)
(* is not mutated" is a statement about the heap and not about a value.    *)
(***************************************************************************)
EXTENDS Integers, Sequences, FiniteSets, TLC

(***************************************************************************)
(* Bounds of the model.                                                    *)
(***************************************************************************)
\* finite max_turns inputs range over -1..MaxTurns (and Infinity)
MaxTurns == 2
\* the provider is called at most this many times in one run
MaxProviderCalls == 3
\* a provider reply carries at most this many tool-call requests
MaxToolCalls == 2
\* the provider issues at most this many tool-call requests over one run
MaxRequests == 2
\* an agent's function list grows to at most this many entries
MaxFunctions == 2

None == "None"

\* an optional array or object: a property that is not set is NoList or
\* NoObject, one that is set carries its value in items
List(items) == [present |-> TRUE, items |-> items]
NoList == [present |-> FALSE, items |-> << >>]

(***************************************************************************)
(* Context stores: a mapping of the keys below to a value, Absent when the *)
(* key is not an own property of the object.                               *)
(***************************************************************************)
Keys == {"pre", "a", "b", "m", "temperature"}
Absent == "absent"
NaNValue == "NaN"
NullValue == "null"

EmptyContext == [k \in Keys |-> Absent]

\* { ...x, ...y }: own properties of y override those of x
Spread(x, y) == [k \in Keys |-> IF y[k] # Absent THEN y[k] ELSE x[k]]

\* JSON.parse(JSON.stringify(v)) on one value: NaN is serialized as null
JsonValue(v) == IF v = NaNValue THEN NullValue ELSE v

\* JSON.parse(JSON.stringify(obj)) on a context object
JsonCloneContext(obj) == [k \in Keys |-> JsonValue(obj[k])]

(***************************************************************************)
(* Messages (types.ts Message).  A string field that is not set is None,   *)
(* tool_calls that is not set is NoList.                                   *)
(***************************************************************************)
Msg(role, content, sender, tool_calls, tool_call_id, tool_name) ==
    [role |-> role, content |-> content, sender |-> sender,
     tool_calls |-> tool_calls, tool_call_id |-> tool_call_id,
     tool_name |-> tool_name]

UserMessage == Msg("user", "call echo with foo", None, NoList, None, None)

\* JSON.parse(JSON.stringify(messages)): every field of a Message is a
\* string or an array of plain objects of strings, which the round trip
\* rebuilds field by field in a fresh array
JsonCloneMessage(m) ==
    Msg(JsonValue(m.role), JsonValue(m.content), JsonValue(m.sender),
        m.tool_calls, JsonValue(m.tool_call_id), JsonValue(m.tool_name))

JsonCloneMessages(ms) == [i \in 1..Len(ms) |-> JsonCloneMessage(ms[i])]

(***************************************************************************)
(* Values a registered function can return (AgentFunctionReturn and what   *)
(* untyped JavaScript allows besides).                                     *)
(*   type "string": a primitive string, str is its text                    *)
(*   type "Agent":  an Agent instance, agent names it                      *)
(*   type "object": a plain object with the listed own properties          *)
(*   type "bare":   Object.create(null), which has no toString             *)
(***************************************************************************)
RawValue(type, str, value, agent, context_variables, msgs) ==
    [type |-> type, str |-> str, value |-> value, agent |-> agent,
     context_variables |-> context_variables, messages |-> msgs]

\* context_variables that is not set
NoObject == [present |-> FALSE, items |-> EmptyContext]
Object(ctx) == [present |-> TRUE, items |-> ctx]

StringValue(s) == RawValue("string", s, None, None, NoObject, NoList)
AgentValue(a) == RawValue("Agent", None, None, a, NoObject, NoList)
ResultValue(value, agent, ctx, msgs) ==
    RawValue("object", None, value, agent, ctx, msgs)
BareObject == RawValue("bare", None, None, None, NoObject, NoList)
Undefined == RawValue("undefined", None, None, None, NoObject, NoList)

\* the messages the function "extra" hands back in its Result
ExtraMessages ==
    << Msg("assistant", "note", "extra", NoList, None, None),
       Msg("tool", "carried", None, NoList, "call_0", "extra") >>

(***************************************************************************)
(* The registered functions.  Each handle is named after its method; what  *)
(* the method does is fixed, which of them is requested is up to the       *)
(* provider.                                                               *)
(***************************************************************************)
Handles == {"echo", "fail", "weird", "transfer", "setA", "setB", "extra",
            "mutate", "transferC", "transferResult"}

\* decorated methods of the repository's tests and examples, and silent, a
\* method decorated with @AgentFunction('')
TestHandles == {"testFunction", "anotherTestFunction", "get_weather",
                "noDescriptionFunction", "silent"}

\* a function that no decorator has seen, and a value that is no function
PlainFunction == "plain"
NotAFunction == "not a function"

\* typeof func === 'function'
IsCallable(func) == func \in Handles \cup TestHandles \cup {PlainFunction}

\* one entry of FunctionMetadata.params; a description that is not set is
\* None
DescribedParam(name, type, optional, description) ==
    [name |-> name, type |-> type, optional |-> optional,
     description |-> description]
Param(name, type, optional) == DescribedParam(name, type, optional, None)

\* functions.ts FunctionMetadata of a decorated method
FunctionMetadata(h) ==
    [name |-> h,
     description |->
        CASE h = "echo" -> "echo the argument"
          [] h = "testFunction" -> "Test function"
          [] h = "anotherTestFunction" -> "Another test function"
          [] h = "get_weather" -> "get the current weather"
          [] h = "silent" -> ""
          [] OTHER -> None,
     params |->
        CASE h = "echo" -> << Param("x", "String", FALSE) >>
          [] h = "mutate" -> << Param("ctx", "ContextVariables", FALSE) >>
          [] h = "testFunction" ->
                << DescribedParam("param", "String", FALSE, "Test param") >>
          [] h = "anotherTestFunction" ->
                << DescribedParam("num", "Number", FALSE, "Number param"),
                   DescribedParam("opt", "String", TRUE, "Optional param") >>
          [] h = "get_weather" ->
                << Param("countryCode", "String", FALSE),
                   Param("zipCode", "String", FALSE),
                   Param("contextVars", "ContextVariables", FALSE) >>
          [] h = "noDescriptionFunction" ->
                << Param("array", "array", FALSE) >>
          [] h = "silent" ->
                << DescribedParam("vars", "ContextVariables", TRUE, "store"),
                   DescribedParam("note", "String", TRUE, ""),
                   DescribedParam("level", "integer", FALSE, "Level") >>
          [] OTHER -> << >>,
     returnType |->
        CASE h = "anotherTestFunction" -> "Number"
          [] h \in {"get_weather", "noDescriptionFunction", "silent"} ->
                "void"
          [] OTHER -> "String",
     func |-> h]

\* (f as any)?.functionMetadata of a value that carries none
UndefinedMetadata ==
    [name |-> None, description |-> None, params |-> << >>,
     returnType |-> None, func |-> None]

\* (f as any)?.functionMetadata
MetadataOf(f) ==
    IF f \in Handles \cup TestHandles THEN FunctionMetadata(f)
    ELSE UndefinedMetadata

(***************************************************************************)
(* Agents (agent.ts).                                                      *)
(***************************************************************************)
Agents == {"A", "B", "C"}

AgentParams(a) ==
    IF a = "A"
    THEN [name |-> "A", instructions |-> "function",
          functions |-> << "echo", "fail", "weird", "transfer", "setA",
                           "setB", "extra", "mutate" >>,
          llmProvider |-> None, tool_choice |-> "auto"]
    ELSE IF a = "B"
    THEN [name |-> "B", instructions |-> "You are B",
          functions |-> << "echo" >>,
          llmProvider |-> "providerB", tool_choice |-> None]
    ELSE [name |-> "C", instructions |-> "You are C", functions |-> << >>,
          llmProvider |-> None, tool_choice |-> None]

\* Agent.getInstructions: a function is applied to the context store, a
\* string is returned as it is.  The function instructions of agent A read
\* the keys pre, a and b.
InstructionFn(ctx) ==
    "pre=" \o ctx["pre"] \o " a=" \o ctx["a"] \o " b=" \o ctx["b"]

\* a getInstructions that fills the context store into string instructions
getInstructionsInterpolating(a, ctx) ==
    IF AgentParams(a).instructions = "function" THEN InstructionFn(ctx)
    ELSE AgentParams(a).instructions \o " m=" \o ctx["m"]

getInstructions(a, ctx) ==
    IF AgentParams(a).instructions = "function" THEN InstructionFn(ctx)
    ELSE AgentParams(a).instructions

(***************************************************************************)
(* FunctionBase (functions.ts): the class TestFunctions of the tests, its  *)
(* decorated methods and the instances constructed from it.  The           *)
(* decorator leaves one metadata object per method on the prototype's      *)
(* function; an entry of an instance's `functions` is a reference to an    *)
(* object.                                                                 *)
(***************************************************************************)
VARIABLES
    methodMetadata,    \* the metadata object defined on each decorated method
    functionMetadata,  \* the functionMetadata property of each method
    instances,         \* the `functions` list of each instance constructed
    lastCall           \* the last call of a func taken from an instance

registryVars == << methodMetadata, functionMetadata, instances, lastCall >>

\* the number of instances constructed at most
MaxInstances == 3

\* Object.getOwnPropertyNames(prototype) without the constructor
ClassMethods ==
    << "simpleFunction", "optionalParamFunction", "noDescriptionFunction",
       "complexFunction", "defaultValueFunction", "multiTypeFunction",
       "plainFunction" >>

\* the methods that carry @AgentFunction
IsDecorated(m) == m # "plainFunction"
DecoratedMethods == { ClassMethods[i] : i \in 1..Len(ClassMethods) } \
                    { "plainFunction" }

\* a function value: the method m bound to the instance `this` (0: the
\* method as declared, not bound)
Method(m, this) == [method |-> m, this |-> this]

\* the metadata object the decorator builds for a method: func is the
\* declared method
AgentFunction(m) == [name |-> m, func |-> Method(m, 0)]

\* a reference to the metadata object of a method, and undefined
SharedMetadata(m) == [shared |-> TRUE, name |-> m, func |-> Method(m, 0)]
NoMetadata == [shared |-> FALSE, name |-> None, func |-> Method(None, 0)]

\* the object an entry refers to, as it is now
Deref(entry, heap) ==
    IF entry.shared THEN heap[entry.name]
    ELSE [name |-> entry.name, func |-> entry.func]

\* FunctionBase.registerFunctions for the instance `this`: for every
\* decorated method, in order, func of the method's metadata object is set
\* to the method bound to `this`, the object is pushed to this.functions
\* and set as the functionMetadata property of this[methodName], which is
\* the prototype's function
registerFunctions(heap, this) ==
    [heap |-> [m \in DOMAIN heap |->
                 [heap[m] EXCEPT !.func = Method(m, this)]],
     functions |-> [i \in 1..Len(SelectSeq(ClassMethods, IsDecorated)) |->
                      SharedMetadata(SelectSeq(ClassMethods, IsDecorated)[i])],
     property |-> [m \in DecoratedMethods |-> SharedMetadata(m)]]

NothingCalled == [from |-> 0, via |-> None, func |-> Method(None, 0)]

\* the class is declared and its decorators have run
Declared ==
    /\ methodMetadata = [m \in DecoratedMethods |-> AgentFunction(m)]
    /\ functionMetadata = [m \in DecoratedMethods |-> NoMetadata]
    /\ instances = << >>
    /\ lastCall = NothingCalled

(***************************************************************************)
(* The function list of each agent (params.functions), which               *)
(* appendFunction changes.                                                 *)
(***************************************************************************)
VARIABLES
    agentFunctions,    \* params.functions of each agent, NoList if not set
    registered,        \* the functions each agent was given, in order
    appended,          \* the last call of appendFunction and what it threw
    metadataList       \* the list a call of getFunctionMetadata returned

agentVars == << agentFunctions, registered, appended, metadataList,
               registryVars >>

NoAppend == [agent |-> None, func |-> None, error |-> None]

\* Agent.getFunctionMetadata: the functionMetadata property of every entry
\* of the list, in order; [] when there is no list
getFunctionMetadata(a) ==
    IF agentFunctions[a].present
    THEN [i \in 1..Len(agentFunctions[a].items) |->
            MetadataOf(agentFunctions[a].items[i])]
    ELSE << >>

\* no list was asked for yet
NoMetadataList == [agent |-> None, live |-> FALSE, items |-> << >>]

\* a getFunctionMetadata that hands out a list that follows params.functions
ReturnedListLive(a) == [agent |-> a, live |-> TRUE, items |-> << >>]

\* what a call of getFunctionMetadata hands to its caller: map builds a new
\* array (as does the [] of the fallback), which no later push reaches
ReturnedList(a) ==
    [agent |-> a, live |-> FALSE, items |-> getFunctionMetadata(a)]

\* the entries a list that was handed out holds now
EntriesOf(list, fns) ==
    IF list.live
    THEN IF fns[list.agent].present
         THEN [i \in 1..Len(fns[list.agent].items) |->
                 MetadataOf(fns[list.agent].items[i])]
         ELSE << >>
    ELSE list.items

\* an appendFunction that does not look at its argument
appendFunctionUnchecked(fns, func) ==
    [error |-> None, functions |-> List(Append(fns.items, func))]

\* an appendFunction that puts the new function first
appendFunctionFirst(fns, func) ==
    IF ~IsCallable(func)
    THEN [error |-> "Error: Invalid function", functions |-> fns]
    ELSE [error |-> None, functions |-> List(<< func >> \o fns.items)]

\* Agent.appendFunction: the error it throws (None if it returns) and the
\* list it leaves
appendFunction(fns, func) ==
    IF ~IsCallable(func)
    THEN [error |-> "Error: Invalid function", functions |-> fns]
    ELSE [error |-> None,
          functions |-> List(Append(IF fns.present THEN fns.items
                                    ELSE << >>,
                                    func))]

(***************************************************************************)
(* Tool-call requests (types.ts ToolCall) and their argument payloads.     *)
(* A parsed payload is the list of its entries in insertion order.         *)
(***************************************************************************)
\* an argument value: a string, or a reference to a context object
ArgString(s) == [str |-> s, ref |-> None]
ContextRef(ref) == [str |-> None, ref |-> ref]
IsContextRef(v) == v.ref # None

EmptyArgs == "{}"
FooArgs == "{\"x\":\"foo\"}"
BadArgs == "{\"x\":"
WeatherArgs == "{\"countryCode\":\"DE\",\"zipCode\":\"20095\"}"
SwappedArgs == "{\"zipCode\":\"20095\",\"countryCode\":\"DE\"}"
LevelArgs == "{\"level\":\"3\"}"
NoteLevelArgs == "{\"note\":\"n\",\"level\":\"3\"}"
\* payloads that carry a value under the name of the context parameter
ForgedArgs ==
    "{\"countryCode\":\"DE\",\"zipCode\":\"20095\",\"contextVars\":\"forged\"}"
ForgedFirstArgs ==
    "{\"contextVars\":\"forged\",\"countryCode\":\"DE\",\"zipCode\":\"20095\"}"

ToolCall(id, name, arguments) ==
    [id |-> id, function |-> [name |-> name, arguments |-> arguments],
     type |-> "function"]

\* JSON.parse of a payload: the entries, or a SyntaxError
JsonParse(text) ==
    CASE text = EmptyArgs -> [ok |-> TRUE, value |-> << >>]
      [] text = FooArgs ->
            [ok |-> TRUE,
             value |-> << [key |-> "x", value |-> ArgString("foo")] >>]
      [] text = WeatherArgs ->
            [ok |-> TRUE,
             value |-> << [key |-> "countryCode", value |-> ArgString("DE")],
                          [key |-> "zipCode", value |-> ArgString("20095")] >>]
      [] text = SwappedArgs ->
            [ok |-> TRUE,
             value |-> << [key |-> "zipCode", value |-> ArgString("20095")],
                          [key |-> "countryCode", value |-> ArgString("DE")] >>]
      [] text = LevelArgs ->
            [ok |-> TRUE,
             value |-> << [key |-> "level", value |-> ArgString("3")] >>]
      [] text = NoteLevelArgs ->
            [ok |-> TRUE,
             value |-> << [key |-> "note", value |-> ArgString("n")],
                          [key |-> "level", value |-> ArgString("3")] >>]
      [] text = ForgedArgs ->
            [ok |-> TRUE,
             value |-> << [key |-> "countryCode", value |-> ArgString("DE")],
                          [key |-> "zipCode", value |-> ArgString("20095")],
                          [key |-> "contextVars",
                           value |-> ArgString("forged")] >>]
      [] text = ForgedFirstArgs ->
            [ok |-> TRUE,
             value |-> << [key |-> "contextVars",
                           value |-> ArgString("forged")],
                          [key |-> "countryCode", value |-> ArgString("DE")],
                          [key |-> "zipCode", value |-> ArgString("20095")] >>]
      [] OTHER -> [ok |-> FALSE, value |-> "SyntaxError"]

\* args[key] = value: an existing property keeps its place
SetProperty(args, key, value) ==
    IF \E i \in 1..Len(args) : args[i].key = key
    THEN [i \in 1..Len(args) |->
            IF args[i].key = key THEN [key |-> key, value |-> value]
            ELSE args[i]]
    ELSE Append(args, [key |-> key, value |-> value])

\* Object.values(args)
ObjectValues(args) == [i \in 1..Len(args) |-> args[i].value]

(***************************************************************************)
(* What a call of each registered function does with its positional        *)
(* arguments: the value it returns or the error it throws, and the writes  *)
(* it makes to a context object it was handed.                             *)
(***************************************************************************)
NoWrites == [ref |-> None, set |-> EmptyContext]
Returns(raw) ==
    [threw |-> FALSE, raw |-> raw, error |-> None, writes |-> NoWrites]
Throws(text) ==
    [threw |-> TRUE, raw |-> Undefined, error |-> text, writes |-> NoWrites]

FuncBody(h, argv) ==
    CASE h = "echo" ->
            IF Len(argv) >= 1 /\ ~IsContextRef(argv[1])
            THEN Returns(StringValue(argv[1].str))
            ELSE Returns(StringValue("undefined"))
      [] h = "fail" -> Throws("Error: boom")
      [] h = "weird" -> Returns(BareObject)
      [] h = "transfer" -> Returns(AgentValue("B"))
      [] h = "transferC" -> Returns(AgentValue("C"))
      [] h = "transferResult" ->
            Returns(ResultValue("moved", "B", NoObject, NoList))
      [] h = "setA" ->
            Returns(ResultValue("ok", None,
                                Object([EmptyContext EXCEPT !["a"] = "1"]),
                                NoList))
      [] h = "setB" ->
            Returns(ResultValue("ok", None,
                                Object([EmptyContext EXCEPT !["b"] = "2"]),
                                NoList))
      [] h = "extra" ->
            Returns(ResultValue("ok", None, NoObject, List(ExtraMessages)))
      [] h = "mutate" ->
            \* ctx.pre = 0; ctx.m = 9; return 'mutated'
            IF Len(argv) >= 1 /\ IsContextRef(argv[1])
            THEN [threw |-> FALSE, raw |-> StringValue("mutated"),
                  error |-> None,
                  writes |-> [ref |-> argv[1].ref,
                              set |-> [EmptyContext EXCEPT !["pre"] = "0",
                                                           !["m"] = "9"]]]
            ELSE Throws("TypeError: Cannot create property 'pre'")

\* `${v}` of a context value
TemplateOf(v) == IF v = Absent THEN "undefined" ELSE v

\* the decorated methods of the examples: get_weather reads the key
\* temperature of its third argument, silent returns nothing
ExampleFuncBody(h, argv, heap) ==
    CASE h = "get_weather" ->
            IF Len(argv) < 3
            THEN Throws("TypeError: Cannot read properties of undefined "
                        \o "(reading 'temperature')")
            ELSE Returns(StringValue(
                    "{'temp': "
                    \o (IF IsContextRef(argv[3])
                        THEN TemplateOf(heap[argv[3].ref]["temperature"])
                        ELSE "undefined")
                    \o ", 'unit':'F'}"))
      [] OTHER -> Returns(Undefined)

\* funcMetadata.func(...argv)
CallFunction(h, argv, heap) ==
    IF h \in Handles THEN FuncBody(h, argv) ELSE ExampleFuncBody(h, argv, heap)

(***************************************************************************)
(* The result normalizer.                                                  *)
(***************************************************************************)
\* OrchTS.isResult: an object with a string `value`
isResult(obj) ==
    /\ obj.type \in {"object", "Agent", "bare"}
    /\ obj.value # None

Result(value, agent, context_variables, msgs) ==
    [value |-> value, agent |-> agent,
     context_variables |-> context_variables, messages |-> msgs]

\* String(result): throws for an object without toString
StringOf(raw) ==
    CASE raw.type = "string" -> [ok |-> TRUE, text |-> raw.str]
      [] raw.type = "object" -> [ok |-> TRUE, text |-> "[object Object]"]
      [] raw.type = "undefined" -> [ok |-> TRUE, text |-> "undefined"]
      [] OTHER ->
            [ok |-> FALSE,
             text |-> "TypeError: Cannot convert object to primitive value"]

\* a normalizer that knows no Agent: what is no Result is cast to a string
handleFunctionResultCasting(raw) ==
    IF isResult(raw) /\ raw.type # "Agent"
    THEN [ok |-> TRUE, error |-> None,
          result |-> Result(raw.value, raw.agent, raw.context_variables,
                            raw.messages)]
    ELSE IF raw.type = "Agent"
    THEN [ok |-> TRUE, error |-> None,
          result |-> Result("[object Object]", None, Object(EmptyContext),
                            NoList)]
    ELSE IF StringOf(raw).ok
    THEN [ok |-> TRUE, error |-> None,
          result |-> Result(StringOf(raw).text, None, Object(EmptyContext),
                            NoList)]
    ELSE [ok |-> FALSE, error |-> StringOf(raw).text,
          result |-> Result(None, None, NoObject, NoList)]

\* OrchTS.handleFunctionResult: the Result, or the TypeError it throws
handleFunctionResult(raw) ==
    IF isResult(raw)
    THEN [ok |-> TRUE, error |-> None,
          result |-> Result(raw.value, raw.agent, raw.context_variables,
                            raw.messages)]
    ELSE IF raw.type = "Agent"
    THEN [ok |-> TRUE, error |-> None,
          result |-> Result("{\"assistant\":\"" \o AgentParams(raw.agent).name
                                \o "\"}",
                            raw.agent, Object(EmptyContext), NoList)]
    ELSE IF StringOf(raw).ok
    THEN [ok |-> TRUE, error |-> None,
          result |-> Result(StringOf(raw).text, None, Object(EmptyContext),
                            NoList)]
    ELSE [ok |-> FALSE, error |-> StringOf(raw).text,
          result |-> Result(None, None, NoObject, NoList)]

(***************************************************************************)
(* OrchTS.functionToObject: the tool schema advertised for one function.   *)
(***************************************************************************)
\* x || y on strings: None (undefined) and '' are falsy
OrElse(x, y) == IF x = None \/ x = "" THEN y ELSE x

\* a schema that leaves the context-store parameters in `required`
functionToObjectRequiringContext(func) ==
    LET visible(p) == p.type # "ContextVariables"
        required(p) == ~p.optional
        shown == SelectSeq(func.params, visible)
        needed == SelectSeq(func.params, required)
    IN  [type |-> "function",
         function |->
            [name |-> func.name,
             description |-> OrElse(func.description,
                                    "function: " \o func.name),
             parameters |->
                [type |-> "object",
                 properties |-> [i \in 1..Len(shown) |->
                                    [name |-> shown[i].name,
                                     type |-> shown[i].type,
                                     description |->
                                        OrElse(shown[i].description, None)]],
                 required |-> [i \in 1..Len(needed) |-> needed[i].name]]]]

\* properties lists the entries of the object in insertion order; an
\* entry whose description is not set has description None
functionToObject(func) ==
    LET visible(p) == p.type # "ContextVariables"
        required(p) == ~p.optional /\ p.type # "ContextVariables"
        shown == SelectSeq(func.params, visible)
        needed == SelectSeq(func.params, required)
    IN  [type |-> "function",
         function |->
            [name |-> func.name,
             description |-> OrElse(func.description,
                                    "function: " \o func.name),
             parameters |->
                [type |-> "object",
                 properties |-> [i \in 1..Len(shown) |->
                                    [name |-> shown[i].name,
                                     type |-> shown[i].type,
                                     description |->
                                        OrElse(shown[i].description, None)]],
                 required |-> [i \in 1..Len(needed) |-> needed[i].name]]]]

(***************************************************************************)
(* OrchTS.processLLMResponse: the assistant message made of a completion.  *)
(* A completion is NoCompletion (undefined) or a message, where a content  *)
(* of None is null.                                                        *)
(***************************************************************************)
Completion(content, tool_calls) ==
    [defined |-> TRUE, content |-> content, tool_calls |-> tool_calls]
NoCompletion == [defined |-> FALSE, content |-> None, tool_calls |-> NoList]

\* a processLLMResponse that does not set sender
processLLMResponseUntagged(completion, agent) ==
    Msg("assistant",
        IF ~completion.defined THEN "No completion provided"
        ELSE IF completion.content # None THEN completion.content ELSE "",
        None,
        IF completion.defined THEN List(completion.tool_calls.items)
        ELSE NoList,
        None, None)

processLLMResponse(completion, agent) ==
    IF ~completion.defined
    THEN Msg("assistant", "No completion provided", None, NoList, None, None)
    ELSE Msg("assistant",
             IF completion.content # None THEN completion.content ELSE "",
             AgentParams(agent).name,
             IF completion.tool_calls.present
                /\ Len(completion.tool_calls.items) > 0
             THEN List([i \in 1..Len(completion.tool_calls.items) |->
                     ToolCall(completion.tool_calls.items[i].id,
                              completion.tool_calls.items[i].function.name,
                              completion.tool_calls.items[i].function.arguments)])
             ELSE List(<< >>),
             None, None)

\* (llmMessage?.tool_calls?.length || 0)
ToolCallCount(llmMessage) ==
    IF llmMessage.tool_calls.present THEN Len(llmMessage.tool_calls.items)
    ELSE 0

(***************************************************************************)
(* The state of one call of OrchTS.run and of its caller.                  *)
(***************************************************************************)
VARIABLES
    config,            \* the OrchTSConfig the instance was constructed with
    opts,              \* RunOptions: max_turns, execute_tools
    msgHeap,           \* the message arrays: the caller's and the run's own
    ctxHeap,           \* the context objects: the caller's and the run's own
    preCall,           \* clones of the caller's objects taken before the call
    pc,                \* where the run is
    messages,          \* run: the array `messages` refers to
    contextVariables,  \* run: the object `contextVariables` refers to
    activeAgent,       \* run: activeAgent
    turnCount,         \* run: turnCount
    request,           \* the LLMProviderParams of the last provider call
    toolCalls,         \* handleToolCalls: toolCalls
    functions,         \* handleToolCalls: functions
    idx,               \* handleToolCalls: position of the for loop
    partialResponse,   \* handleToolCalls: partialResponse
    pending,           \* the function call being awaited
    calledWith,        \* the arguments of the function call being awaited
    response,          \* what run resolved with
    error,             \* what run rejected with
    providerCalls,     \* number of generateCompletion calls made
    toolCycles,        \* number of handleToolCalls calls made
    invoked,           \* number of registered functions called
    providerErrors,    \* number of generateCompletion calls that rejected
    issued,            \* number of tool-call requests the provider issued
    received,          \* the completions generateCompletion resolved with
    thisCall,          \* the call of run (1 or 2) whose locals are above
    parked,            \* the locals of the other call of run, suspended
    overlapped,        \* the calls were switched while both were in flight
    gcPc,              \* OpenAIProvider.generateCompletion: where it is
    gcParams,          \* generateCompletion: params
    apiRequest,        \* the body of the last chat.completions.create call
    apiCalls,          \* number of chat.completions.create calls made
    gcResult,          \* what generateCompletion resolved with
    gcError            \* what generateCompletion rejected with

vars == << config, gcPc, gcParams, apiRequest, apiCalls, gcResult, gcError,
           received, thisCall, parked, overlapped, agentFunctions,
           registered, appended, metadataList, registryVars, opts, msgHeap,
           ctxHeap, preCall, pc,
           messages, contextVariables,
           activeAgent, turnCount, request, toolCalls, functions, idx,
           partialResponse, pending, calledWith, response, error,
           providerCalls, toolCycles, invoked, providerErrors, issued >>

runVars == << messages, contextVariables, activeAgent, turnCount >>
execVars == << toolCalls, functions, idx, partialResponse, pending,
              calledWith >>
ghostVars == << providerCalls, toolCycles, invoked, providerErrors, issued >>
callVars == << thisCall, parked, overlapped >>
providerVars == << gcPc, gcParams, apiRequest, apiCalls, gcResult, gcError >>

\* the locals of a call of run, as its suspended continuation holds them
Locals ==
    [pc |-> pc, messages |-> messages,
     contextVariables |-> contextVariables, activeAgent |-> activeAgent,
     turnCount |-> turnCount, request |-> request, toolCalls |-> toolCalls,
     functions |-> functions, idx |-> idx,
     partialResponse |-> partialResponse, pending |-> pending,
     calledWith |-> calledWith,
     response |-> response, error |-> error,
     providerCalls |-> providerCalls, toolCycles |-> toolCycles,
     invoked |-> invoked, providerErrors |-> providerErrors,
     issued |-> issued, received |-> received]

\* the array and the object a call of run makes for itself
OwnRef(call) == IF call = 1 THEN "run" ELSE "run2"

(***************************************************************************)
(* Inputs.                                                                 *)
(***************************************************************************)
Infinity == [inf |-> TRUE, n |-> 0]
Finite(n) == [inf |-> FALSE, n |-> n]

MaxTurnsInputs == {Finite(n) : n \in (-1)..MaxTurns} \cup {Infinity}

InputMessages == { << >>, << UserMessage >> }

InputContexts ==
    { EmptyContext,
      [EmptyContext EXCEPT !["pre"] = "7"],
      [EmptyContext EXCEPT !["pre"] = NaNValue] }

\* the requests a provider reply is made of
RequestTemplates ==
    { << "echo", FooArgs >>, << "echo", BadArgs >>, << "missing", EmptyArgs >> }
    \cup { << h, EmptyArgs >> :
             h \in Handles \ {"echo", "transferC", "transferResult"} }

CallId(i) == "call_" \o ToString(i)

ToolCallLists(max) ==
    UNION { { [i \in 1..n |-> ToolCall(CallId(i), f[i][1], f[i][2])] :
                f \in [1..n -> RequestTemplates] } : n \in 1..max }

Min(a, b) == IF a < b THEN a ELSE b

\* what generateCompletion can resolve with
Completions(left) ==
    { NoCompletion, Completion("done", NoList) }
    \cup { Completion(None, List(tc)) :
             tc \in ToolCallLists(Min(MaxToolCalls, left)) }

\* before the first provider call, function call and return
NoRequest ==
    [provider |-> None, messages |-> << >>, tools |-> NoList,
     tool_choice |-> None]
NoCall == Returns(Undefined)
NoInvocation == [func |-> None, argv |-> << >>, store |-> EmptyContext]
NoResponse == [agent |-> None, messages |-> None, context_variables |-> None]

\* handleToolCalls, lines 307-314
NewPartialResponse(ctx) ==
    [messages |-> << >>, agent |-> None, context_variables |-> ctx]

\* the agents as constructed, before any call of appendFunction
Constructed(fns) ==
    /\ agentFunctions = fns
    /\ registered = [a \in Agents |-> fns[a].items]
    /\ appended = NoAppend
    /\ metadataList = NoMetadataList
    /\ Declared

\* OrchTSConfig.maxTurns that is not set, and one that is
NoMaxTurns == [set |-> FALSE, n |-> 0]
ConfigMaxTurns(n) == [set |-> TRUE, n |-> n]

\* new OrchTS(config), lines 17-25
Configured(maxTurns) == config = [maxTurns |-> maxTurns]

\* the arguments of run: the options, and the caller's array and object
Called(o, ms, cv) ==
    /\ opts = o
    /\ msgHeap = [caller |-> ms, run |-> << >>, run2 |-> << >>]
    /\ ctxHeap = [caller |-> cv, run |-> EmptyContext, run2 |-> EmptyContext]
    /\ preCall = [messages |-> ms, context_variables |-> cv]

\* run has not been entered
NotStarted ==
    /\ pc = "idle"
    /\ messages = None
    /\ contextVariables = None
    /\ activeAgent = None
    /\ turnCount = 0
    /\ request = NoRequest
    /\ toolCalls = << >>
    /\ functions = << >>
    /\ idx = 0
    /\ partialResponse = NewPartialResponse(EmptyContext)
    /\ pending = NoCall
    /\ calledWith = NoInvocation
    /\ response = NoResponse
    /\ error = None
    /\ providerCalls = 0
    /\ toolCycles = 0
    /\ invoked = 0
    /\ providerErrors = 0
    /\ issued = 0
    /\ received = << >>

\* generateCompletion of the OpenAI provider has not been called
NoApiMessage ==
    [role |-> None, content |-> None, tool_calls |-> NoList,
     tool_call_id |-> None]
NoApiRequest ==
    [model |-> None, messages |-> << >>, tools |-> NoList,
     tool_choice |-> None]
ProviderIdle ==
    /\ gcPc = "idle"
    /\ gcParams = [messages |-> << >>, tools |-> NoList, tool_choice |-> None]
    /\ apiRequest = NoApiRequest
    /\ apiCalls = 0
    /\ gcResult = NoApiMessage
    /\ gcError = None

\* run is called once: there is no other call
OneCall ==
    /\ thisCall = 1
    /\ parked = Locals
    /\ overlapped = FALSE

Init ==
    /\ Constructed([a \in Agents |-> List(AgentParams(a).functions)])
    /\ \E o \in [max_turns : MaxTurnsInputs, execute_tools : BOOLEAN],
          ms \in InputMessages, cv \in InputContexts : Called(o, ms, cv)
    /\ NotStarted
    /\ OneCall
    /\ ProviderIdle
    /\ Configured(NoMaxTurns)

(***************************************************************************)
(* run, lines 39-56: the entry of run.                                     *)
(***************************************************************************)
\* a run that keeps the caller's array instead of a copy of it
AliasMessages(heap) == [ref |-> "caller", heap |-> heap]

\* const messages = JSON.parse(JSON.stringify(initialMessages))
CopyMessages(heap) ==
    [ref |-> OwnRef(thisCall),
     heap |-> [heap EXCEPT ![OwnRef(thisCall)] =
                  JsonCloneMessages(heap["caller"])]]

\* a run that keeps the caller's object instead of a copy of it
AliasContext(heap) == [ref |-> "caller", heap |-> heap]

\* let contextVariables = JSON.parse(JSON.stringify(context_variables))
CopyContext(heap) ==
    [ref |-> OwnRef(thisCall),
     heap |-> [heap EXCEPT ![OwnRef(thisCall)] =
                  JsonCloneContext(heap["caller"])]]

Run ==
    /\ pc = "idle"
    /\ messages' = CopyMessages(msgHeap).ref
    /\ msgHeap' = CopyMessages(msgHeap).heap
    /\ contextVariables' = CopyContext(ctxHeap).ref
    /\ ctxHeap' = CopyContext(ctxHeap).heap
    /\ activeAgent' = "A"
    /\ turnCount' = 0
    /\ pc' = "Running"
    /\ UNCHANGED << providerVars, callVars, received, agentVars, opts, config,
                    preCall, request, execVars, response, error, ghostVars >>

\* a run that takes the configured maxTurns when the options have none
MaxTurnsOrConfigured(o, cfg) ==
    IF o.max_turns.inf /\ cfg.maxTurns.set
    THEN [inf |-> FALSE, n |-> cfg.maxTurns.n]
    ELSE o.max_turns

\* run, lines 42-48: max_turns of the options, Infinity when they have
\* none (Infinity stands for both); this.config.maxTurns is not read
MaxTurnsOption(o, cfg) == o.max_turns

\* a loop that tests its condition after the body (do ... while)
TurnsLeftAfterFirst(count, max_turns) ==
    count = 0 \/ max_turns.inf \/ count < max_turns.n

\* a loop without a turn limit
TurnsLeftAlways(count, max_turns) == TRUE

\* a loop condition that is off by one
TurnsLeftInclusive(count, max_turns) == max_turns.inf \/ count <= max_turns.n

\* while (turnCount < max_turns)
TurnsLeft(count, max_turns) == max_turns.inf \/ count < max_turns.n

\* the Response of lines 145-149
MakeResponse(agent, msgs, ctx) ==
    [agent |-> agent, messages |-> msgs, context_variables |-> ctx]

\* the loop condition fails: run resolves
ReturnResponse ==
    /\ pc = "Running"
    /\ ~TurnsLeft(turnCount, MaxTurnsOption(opts, config))
    /\ response' = MakeResponse(activeAgent, messages, contextVariables)
    /\ pc' = "Terminated"
    /\ UNCHANGED << providerVars, callVars, received, agentVars, opts, config,
                    msgHeap, ctxHeap, preCall, runVars, request, execVars,
                    error, ghostVars >>

(***************************************************************************)
(* getChatCompletion, lines 161-192, up to the awaited provider call.      *)
(***************************************************************************)
DefaultProvider == "defaultLLMProvider"

\* a getChatCompletion that always takes the default provider
LLMProviderParamsDefaultProvider(agent, history, ctx) ==
    LET fns == getFunctionMetadata(agent)
        tools == [i \in 1..Len(fns) |-> functionToObject(fns[i])]
    IN  [provider |-> DefaultProvider,
         messages |-> << Msg("system", getInstructions(agent, ctx),
                             None, NoList, None, None) >> \o history,
         tools |-> IF Len(tools) > 0 THEN List(tools) ELSE NoList,
         tool_choice |-> AgentParams(agent).tool_choice]

\* a getChatCompletion that puts the instructions after the history
LLMProviderParamsTrailing(agent, history, ctx) ==
    LET fns == getFunctionMetadata(agent)
        tools == [i \in 1..Len(fns) |-> functionToObject(fns[i])]
    IN  [provider |-> IF AgentParams(agent).llmProvider # None
                      THEN AgentParams(agent).llmProvider
                      ELSE DefaultProvider,
         messages |-> history
                      \o << Msg("system", getInstructions(agent, ctx),
                                None, NoList, None, None) >>,
         tools |-> IF Len(tools) > 0 THEN List(tools) ELSE NoList,
         tool_choice |-> AgentParams(agent).tool_choice]

LLMProviderParams(agent, history, ctx) ==
    LET fns == getFunctionMetadata(agent)
        tools == [i \in 1..Len(fns) |-> functionToObject(fns[i])]
    IN  [provider |-> IF AgentParams(agent).llmProvider # None
                      THEN AgentParams(agent).llmProvider
                      ELSE DefaultProvider,
         messages |-> << Msg("system", getInstructions(agent, ctx),
                             None, NoList, None, None) >> \o history,
         tools |-> IF Len(tools) > 0 THEN List(tools) ELSE NoList,
         tool_choice |-> AgentParams(agent).tool_choice]

\* no entry of the list is undefined
AllDefined(fns) == \A i \in 1..Len(fns) : fns[i] # UndefinedMetadata

\* reading func.name of an entry that is undefined (lines 215 and 304)
UndefinedNameError ==
    "TypeError: Cannot read properties of undefined (reading 'name')"

RequestCompletion ==
    /\ pc = "Running"
    /\ TurnsLeft(turnCount, MaxTurnsOption(opts, config))
    /\ providerCalls < MaxProviderCalls
    /\ AllDefined(getFunctionMetadata(activeAgent))
    /\ request' = LLMProviderParams(activeAgent, msgHeap[messages],
                                    ctxHeap[contextVariables])
    /\ providerCalls' = providerCalls + 1
    /\ pc' = "AwaitingCompletion"
    /\ UNCHANGED << providerVars, callVars, received, agentVars, opts, config,
                    msgHeap, ctxHeap, preCall, runVars, execVars, response,
                    error, toolCycles, invoked, providerErrors, issued >>

\* a catch that swallows the error and lets the loop go on
SwallowAndRetry(err) == [pc |-> "Running", error |-> None]

\* run, lines 126-135: the catch logs the error and throws it again
Rethrow(err) == [pc |-> "Rejected", error |-> err]

\* lines 167-168: functionToObject throws on an undefined entry of the
\* metadata list before the provider is called; the catch of run rethrows
SchemaRejected ==
    /\ pc = "Running"
    /\ TurnsLeft(turnCount, MaxTurnsOption(opts, config))
    /\ ~AllDefined(getFunctionMetadata(activeAgent))
    /\ error' = Rethrow(UndefinedNameError).error
    /\ pc' = Rethrow(UndefinedNameError).pc
    /\ UNCHANGED << providerVars, callVars, received, agentVars, opts, config,
                    msgHeap, ctxHeap, preCall, runVars, request, execVars,
                    response, ghostVars >>

\* generateCompletion rejects
CompletionRejected ==
    /\ pc = "AwaitingCompletion"
    /\ error' = Rethrow("LLM error").error
    /\ pc' = Rethrow("LLM error").pc
    /\ providerErrors' = providerErrors + 1
    /\ UNCHANGED << providerVars, callVars, received, agentVars, opts, config,
                    msgHeap, ctxHeap, preCall, runVars, request, execVars,
                    response, providerCalls, toolCycles, invoked, issued >>

\* a condition that looks at execute_tools alone
ExecuteToolsAlways(llmMessage, execute_tools) == execute_tools

\* if ((llmMessage?.tool_calls?.length || 0) > 0 && execute_tools)
ShouldExecuteTools(llmMessage, execute_tools) ==
    ToolCallCount(llmMessage) > 0 /\ execute_tools

\* an unshift in the place of the push
Unshift(heap, ref, items) == [heap EXCEPT ![ref] = items \o @]

\* array.push(...items) on the array a reference names
Push(heap, ref, items) == [heap EXCEPT ![ref] = @ \o items]

\* generateCompletion resolves: lines 85-103 and 118-122
CompletionResolved(completion) ==
    LET llmMessage == processLLMResponse(completion, activeAgent)
    IN  /\ pc = "AwaitingCompletion"
        /\ msgHeap' = Push(msgHeap, messages, << llmMessage >>)
        /\ issued' = issued + ToolCallCount(llmMessage)
        /\ IF ~ShouldExecuteTools(llmMessage, opts.execute_tools)
           THEN /\ response' =
                      MakeResponse(activeAgent, messages, contextVariables)
                /\ pc' = "Terminated"
                /\ UNCHANGED << toolCalls, functions, partialResponse, idx,
                                toolCycles, error >>
           ELSE IF AllDefined(getFunctionMetadata(activeAgent))
           THEN /\ toolCalls' = llmMessage.tool_calls.items
                /\ functions' = getFunctionMetadata(activeAgent)
                /\ partialResponse' =
                      NewPartialResponse(ctxHeap[contextVariables])
                /\ idx' = 1
                /\ toolCycles' = toolCycles + 1
                /\ pc' = "ExecutingTools"
                /\ UNCHANGED << response, error >>
           \* line 304: the function map cannot be built
           ELSE /\ error' = Rethrow(UndefinedNameError).error
                /\ pc' = Rethrow(UndefinedNameError).pc
                /\ toolCycles' = toolCycles + 1
                /\ UNCHANGED << toolCalls, functions, partialResponse, idx,
                                response >>
        /\ received' = Append(received, completion)
        /\ UNCHANGED << providerVars, callVars, agentVars, opts, config,
                        ctxHeap, preCall, runVars, request, pending,
                        calledWith, providerCalls, invoked, providerErrors >>

(***************************************************************************)
(* handleToolCalls, lines 316-395: one request of the for loop.            *)
(***************************************************************************)
\* functionMap.has(name)
HasFunction(fns, name) == \E i \in 1..Len(fns) : fns[i].name = name

\* functionMap.get(name): a later entry of the same name replaces an earlier
GetFunction(fns, name) ==
    fns[CHOOSE i \in 1..Len(fns) :
            /\ fns[i].name = name
            /\ \A j \in (i + 1)..Len(fns) : fns[j].name # name]

ToolMessage(content, toolCall) ==
    Msg("tool", content, None, NoList, toolCall.id, toolCall.function.name)

\* a not-found notice that is not linked to its request
UnlinkedNotFoundMessage(toolCall) ==
    Msg("tool", "Error: Tool " \o toolCall.function.name \o " not found.",
        None, NoList, None, toolCall.function.name)

\* lines 327-332
NotFoundMessage(toolCall) ==
    ToolMessage("Error: Tool " \o toolCall.function.name \o " not found.",
                toolCall)

\* lines 385-390
ErrorMessage(toolCall, text) ==
    ToolMessage("Error executing function " \o toolCall.function.name
                    \o ": " \o text,
                toolCall)

InLoop == pc = "ExecutingTools" /\ idx <= Len(toolCalls)

\* lines 321-334: no such function, continue
ToolNotFound ==
    /\ InLoop
    /\ ~HasFunction(functions, toolCalls[idx].function.name)
    /\ partialResponse' =
          [partialResponse EXCEPT
              !.messages = Append(@, NotFoundMessage(toolCalls[idx]))]
    /\ idx' = idx + 1
    /\ UNCHANGED << providerVars, callVars, received, agentVars, opts, config,
                    msgHeap, ctxHeap, preCall, pc, runVars, request,
                    toolCalls, functions, pending, calledWith, response,
                    error, ghostVars >>

\* line 337: JSON.parse throws outside the try of line 347, so the error
\* leaves handleToolCalls and the catch of run rethrows it
ArgumentsRejected ==
    /\ InLoop
    /\ HasFunction(functions, toolCalls[idx].function.name)
    /\ ~JsonParse(toolCalls[idx].function.arguments).ok
    /\ error' = Rethrow(JsonParse(toolCalls[idx].function.arguments).value).error
    /\ pc' = Rethrow(JsonParse(toolCalls[idx].function.arguments).value).pc
    /\ UNCHANGED << providerVars, callVars, received, agentVars, opts, config,
                    msgHeap, ctxHeap, preCall, runVars, request, execVars,
                    response, ghostVars >>

\* lines 340-345: the arguments the function is called with
InjectContext(funcMetadata, args, ctxRef) ==
    LET isCtx(p) == p.type = "ContextVariables"
        found == SelectSeq(funcMetadata.params, isCtx)
    IN  IF Len(found) > 0
        THEN SetProperty(args, found[1].name, ContextRef(ctxRef))
        ELSE args

\* the writes of a function to the context object it was handed
ApplyWrites(heap, writes) ==
    IF writes.ref = None THEN heap
    ELSE [heap EXCEPT ![writes.ref] = Spread(@, writes.set)]

\* line 352: the function and the positional arguments it is called with,
\* and what the context object among them holds at the call
Invocation(func, argv, heap) ==
    [func |-> func, argv |-> argv,
     store |-> IF \E i \in 1..Len(argv) : IsContextRef(argv[i])
               THEN heap[argv[CHOOSE i \in 1..Len(argv) :
                                    IsContextRef(argv[i])].ref]
               ELSE EmptyContext]

\* lines 336-352: the function is called and awaited
InvokeTool ==
    /\ InLoop
    /\ HasFunction(functions, toolCalls[idx].function.name)
    /\ JsonParse(toolCalls[idx].function.arguments).ok
    /\ LET funcMetadata == GetFunction(functions, toolCalls[idx].function.name)
           args == InjectContext(funcMetadata,
                       JsonParse(toolCalls[idx].function.arguments).value,
                       contextVariables)
           outcome == CallFunction(funcMetadata.func, ObjectValues(args),
                                   ctxHeap)
       IN  /\ pending' = outcome
           /\ calledWith' = Invocation(funcMetadata.func, ObjectValues(args),
                                       ctxHeap)
           /\ ctxHeap' = ApplyWrites(ctxHeap, outcome.writes)
    /\ invoked' = invoked + 1
    /\ pc' = "AwaitingTool"
    /\ UNCHANGED << providerVars, callVars, received, agentVars, opts, config,
                    msgHeap, preCall, runVars, request, toolCalls, functions,
                    idx, partialResponse, response, error, providerCalls,
                    toolCycles, providerErrors, issued >>

\* result.value || ''
OrEmpty(value) == IF value = None \/ value = "" THEN "" ELSE value

\* an executor that drops the error of a function that threw
AfterCallDroppingErrors(partial, toolCall, outcome) ==
    IF outcome.threw THEN partial
    ELSE [partial EXCEPT
             !.messages = Append(@, ToolMessage(outcome.raw.str, toolCall))]

\* an executor that puts the newest tool message first
AfterCallPrepending(partial, toolCall, outcome) ==
    [partial EXCEPT
        !.messages = << ToolMessage(IF outcome.threw THEN outcome.error
                                    ELSE OrEmpty(outcome.raw.str),
                                    toolCall) >> \o @]

\* an executor that puts the messages a result carries before the tool
\* message of the request
AfterCallExtrasFirst(partial, toolCall, outcome) ==
    LET cast == IF outcome.threw
                THEN [ok |-> FALSE, error |-> outcome.error,
                      result |-> Result(None, None, NoObject, NoList)]
                ELSE handleFunctionResult(outcome.raw)
    IN  IF cast.ok
        THEN [messages |->
                 partial.messages
                 \o (IF cast.result.messages.present
                     THEN cast.result.messages.items ELSE << >>)
                 \o << ToolMessage(OrEmpty(cast.result.value), toolCall) >>,
              agent |-> IF cast.result.agent # None
                        THEN cast.result.agent ELSE partial.agent,
              context_variables |-> partial.context_variables]
        ELSE [partial EXCEPT
                 !.messages = Append(@, ErrorMessage(toolCall, cast.error))]

\* an executor that forgets the recorded agent when a result names none
AfterCallClearingAgent(partial, toolCall, outcome) ==
    LET cast == IF outcome.threw
                THEN [ok |-> FALSE, error |-> outcome.error,
                      result |-> Result(None, None, NoObject, NoList)]
                ELSE handleFunctionResult(outcome.raw)
    IN  IF cast.ok
        THEN [messages |->
                 Append(partial.messages,
                        ToolMessage(OrEmpty(cast.result.value), toolCall))
                 \o (IF cast.result.messages.present
                     THEN cast.result.messages.items ELSE << >>),
              agent |-> cast.result.agent,
              context_variables |-> partial.context_variables]
        ELSE [partial EXCEPT
                 !.messages = Append(@, ErrorMessage(toolCall, cast.error))]

\* lines 352-391: what the settled call adds to partialResponse.  A value
\* that handleFunctionResult cannot cast makes it throw inside the try, so
\* the catch of line 382 handles it like an error thrown by the function.
AfterCall(partial, toolCall, outcome) ==
    LET cast == IF outcome.threw
                THEN [ok |-> FALSE, error |-> outcome.error,
                      result |-> Result(None, None, NoObject, NoList)]
                ELSE handleFunctionResult(outcome.raw)
    IN  IF cast.ok
        THEN [messages |->
                 Append(partial.messages,
                        ToolMessage(OrEmpty(cast.result.value), toolCall))
                 \o (IF cast.result.messages.present
                     THEN cast.result.messages.items ELSE << >>),
              agent |-> IF cast.result.agent # None
                        THEN cast.result.agent ELSE partial.agent,
              context_variables |-> partial.context_variables]
        ELSE [partial EXCEPT
                 !.messages = Append(@, ErrorMessage(toolCall, cast.error))]

\* the awaited call resolves or rejects
ToolSettled ==
    /\ pc = "AwaitingTool"
    /\ partialResponse' = AfterCall(partialResponse, toolCalls[idx], pending)
    /\ pending' = NoCall
    /\ calledWith' = NoInvocation
    /\ idx' = idx + 1
    /\ pc' = "ExecutingTools"
    /\ UNCHANGED << providerVars, callVars, received, agentVars, opts, config,
                    msgHeap, ctxHeap, preCall, runVars, request, toolCalls,
                    functions, response, error, ghostVars >>

\* run, line 106
MergeContext(current, returned) == Spread(current, returned)

\* a run that ignores the agent a tool result names
KeepAgent(active, returned) == active

\* run, lines 107-114
NextAgent(active, returned) ==
    IF returned # None /\ returned # active THEN returned ELSE active

\* handleToolCalls returns (line 394); run, lines 105-124
EndToolCalls ==
    /\ pc = "ExecutingTools"
    /\ idx > Len(toolCalls)
    /\ ctxHeap' = [ctxHeap EXCEPT ![OwnRef(thisCall)] =
                      MergeContext(ctxHeap[contextVariables],
                                   partialResponse.context_variables)]
    /\ contextVariables' = OwnRef(thisCall)
    /\ activeAgent' = NextAgent(activeAgent, partialResponse.agent)
    /\ msgHeap' = Push(msgHeap, messages, partialResponse.messages)
    /\ turnCount' = turnCount + 1
    /\ pc' = "Running"
    /\ UNCHANGED << providerVars, callVars, received, agentVars, opts, config,
                    preCall, messages, request, execVars, response, error,
                    ghostVars >>

Next ==
    \/ Run
    \/ ReturnResponse
    \/ RequestCompletion
    \/ CompletionRejected
    \/ \E completion \in Completions(MaxRequests - issued) :
          CompletionResolved(completion)
    \/ ToolNotFound
    \/ ArgumentsRejected
    \/ InvokeTool
    \/ ToolSettled
    \/ EndToolCalls

Spec == Init /\ [][Next]_vars

(***************************************************************************)
(* Agents under construction: appendFunction is called on agent A, with    *)
(* functions that carry metadata, with one that carries none and with a    *)
(* value that is no function, and run is called on A with its default      *)
(* options and a provider that asks for no tool.                           *)
(***************************************************************************)
\* what appendFunction is called with
AppendInputs == TestHandles \cup {PlainFunction, NotAFunction}

\* params.functions as the constructor was given it
ConstructorLists == { NoList, List(<< >>), List(<< "get_weather" >>) }

\* appendFunction is called while no run is in flight
AppendFunction(a, func) ==
    /\ pc = "idle"
    /\ Len(agentFunctions[a].items) < MaxFunctions
    /\ agentFunctions' =
          [agentFunctions EXCEPT ![a] = appendFunction(@, func).functions]
    /\ appended' =
          [agent |-> a, func |-> func,
           error |-> appendFunction(agentFunctions[a], func).error]
    /\ registered' =
          IF appendFunction(agentFunctions[a], func).error = None
          THEN [registered EXCEPT ![a] = Append(@, func)]
          ELSE registered
    /\ UNCHANGED << providerVars, callVars, received, opts, config, msgHeap,
                    ctxHeap, preCall, pc, runVars, request, execVars,
                    response, error, ghostVars, metadataList,
                    registryVars >>

\* getFunctionMetadata is called while no run is in flight, and its caller
\* keeps the list
GetFunctionMetadata(a) ==
    /\ pc = "idle"
    /\ metadataList' = ReturnedList(a)
    /\ UNCHANGED << providerVars, callVars, received, opts, config, msgHeap,
                    ctxHeap, preCall, pc, runVars, request, execVars,
                    response, error, ghostVars, agentFunctions, registered,
                    appended, registryVars >>

AgentInit ==
    /\ \E fns \in ConstructorLists :
          Constructed([a \in Agents |->
                         IF a = "A" THEN fns
                         ELSE List(AgentParams(a).functions)])
    /\ Called([max_turns |-> Infinity, execute_tools |-> TRUE],
              << UserMessage >>, EmptyContext)
    /\ NotStarted
    /\ OneCall
    /\ ProviderIdle
    /\ Configured(NoMaxTurns)

AgentNext ==
    \/ \E func \in AppendInputs : AppendFunction("A", func)
    \/ GetFunctionMetadata("A")
    \/ Run
    \/ RequestCompletion
    \/ SchemaRejected
    \/ CompletionRejected
    \/ \E completion \in Completions(0) : CompletionResolved(completion)

AgentSpec == AgentInit /\ [][AgentNext]_vars

(***************************************************************************)
(* Two calls of run on the same OrchTS instance, with the same agent, the  *)
(* same messages array and the same context object.  JavaScript runs one   *)
(* call at a time and leaves it only where it awaits (the provider call    *)
(* and the function call) or has settled; the other call then goes on      *)
(* with the locals its continuation holds.                                 *)
(***************************************************************************)
\* where a call of run can be left: not entered yet, awaiting, settled
Suspended(at) ==
    at \in {"idle", "AwaitingCompletion", "AwaitingTool", "Terminated",
            "Rejected"}

InFlight(at) == at \in {"AwaitingCompletion", "AwaitingTool"}

\* the event loop turns to the other call of run
Switch ==
    /\ Suspended(pc)
    /\ parked' = Locals
    /\ thisCall' = IF thisCall = 1 THEN 2 ELSE 1
    /\ overlapped' = (overlapped \/ (InFlight(pc) /\ InFlight(parked.pc)))
    /\ pc' = parked.pc
    /\ messages' = parked.messages
    /\ contextVariables' = parked.contextVariables
    /\ activeAgent' = parked.activeAgent
    /\ turnCount' = parked.turnCount
    /\ request' = parked.request
    /\ toolCalls' = parked.toolCalls
    /\ functions' = parked.functions
    /\ idx' = parked.idx
    /\ partialResponse' = parked.partialResponse
    /\ pending' = parked.pending
    /\ calledWith' = parked.calledWith
    /\ response' = parked.response
    /\ error' = parked.error
    /\ providerCalls' = parked.providerCalls
    /\ toolCycles' = parked.toolCycles
    /\ invoked' = parked.invoked
    /\ providerErrors' = parked.providerErrors
    /\ issued' = parked.issued
    /\ received' = parked.received
    /\ UNCHANGED << providerVars, agentVars, opts, config, msgHeap, ctxHeap,
                    preCall >>

\* what the provider replies to the two calls: a plain reply, or one
\* request for a function that writes to the context store, hands off to
\* agent B, carries messages, or is not registered
ConcurrentCompletions ==
    { Completion("done", NoList) }
    \cup { Completion(None, List(<< ToolCall(CallId(1), h, EmptyArgs) >>)) :
             h \in {"mutate", "transfer", "extra", "missing"} }

ConcurrentInit ==
    /\ Constructed([a \in Agents |-> List(AgentParams(a).functions)])
    /\ Called([max_turns |-> Finite(MaxTurns), execute_tools |-> TRUE],
              << UserMessage >>, [EmptyContext EXCEPT !["pre"] = "7"])
    /\ NotStarted
    /\ OneCall
    /\ ProviderIdle
    /\ Configured(NoMaxTurns)

ConcurrentNext ==
    \/ Switch
    \/ Run
    \/ ReturnResponse
    \/ RequestCompletion
    \/ CompletionRejected
    \/ \E completion \in ConcurrentCompletions :
          CompletionResolved(completion)
    \/ ToolNotFound
    \/ InvokeTool
    \/ ToolSettled
    \/ EndToolCalls

ConcurrentSpec == ConcurrentInit /\ [][ConcurrentNext]_vars

(***************************************************************************)
(* Properties.                                                             *)
(***************************************************************************)
Settled == pc \in {"Terminated", "Rejected"}

\* the history of the run, and the part of it the run appended
History == IF pc = "idle" THEN << >> ELSE msgHeap[messages]
Appended == SubSeq(History, Len(preCall.messages) + 1, Len(History))

Last(seq) == seq[Len(seq)]
Max0(n) == IF n < 0 THEN 0 ELSE n

\* a message that run made of a provider reply (not one a tool carried)
IsReply(m) ==
    /\ m.role = "assistant"
    /\ \A k \in 1..Len(ExtraMessages) : m # ExtraMessages[k]

RegisteredNames(agent) ==
    { AgentParams(agent).functions[i] :
        i \in 1..Len(AgentParams(agent).functions) }

\* every provider reply so far asked for exactly one call of echo
OnlyEchoReplies ==
    \A i \in 1..Len(Appended) :
        IsReply(Appended[i]) =>
            /\ ToolCallCount(Appended[i]) = 1
            /\ Appended[i].tool_calls.items[1].function.name = "echo"

\* every provider reply so far carried tool-call requests
OnlyToolCallReplies ==
    \A i \in 1..Len(Appended) :
        IsReply(Appended[i]) => ToolCallCount(Appended[i]) > 0

\* C1: with max_turns = N the tool-call executor is called at most N times
\* (never, for N below 0), and when every reply asks for one call of the
\* text-returning function echo the returned history has at most
\* input length + 2N messages.
C1_TurnBound ==
    ~opts.max_turns.inf =>
        /\ toolCycles <= Max0(opts.max_turns.n)
        /\ (pc = "Terminated" /\ OnlyEchoReplies) =>
              Len(msgHeap[response.messages])
                  <= Len(preCall.messages) + 2 * Max0(opts.max_turns.n)

C1_Witness ==
    /\ pc = "Terminated"
    /\ opts.max_turns = Finite(2)
    /\ toolCycles = 2
    /\ OnlyEchoReplies
    /\ Len(msgHeap[response.messages]) = Len(preCall.messages) + 4

\* C2: when every provider reply carries tool-call requests and
\* max_turns = N >= 1, run resolves after exactly N tool-execution cycles
\* and exactly N provider calls.
C2_ExactlyNCycles ==
    ( /\ Settled
      /\ ~opts.max_turns.inf
      /\ opts.max_turns.n >= 1
      /\ opts.execute_tools
      /\ providerErrors = 0
      /\ OnlyToolCallReplies )
    => ( /\ pc = "Terminated"
         /\ toolCycles = opts.max_turns.n
         /\ providerCalls = opts.max_turns.n )

\* C3: the caller's messages array and context object are deep-equal to
\* the clones taken before the call, at every point of every run.
C3_CallerUntouched ==
    /\ msgHeap["caller"] = preCall.messages
    /\ ctxHeap["caller"] = preCall.context_variables

C3_Witness ==
    /\ pc = "Terminated"
    /\ ctxHeap["run"]["m"] = "9"
    /\ \E i \in 1..Len(Appended) : Appended[i] = ExtraMessages[2]

\* the history ends with a reply without tool-call requests only in a run
\* that has resolved with that history
C4_PlainReplyState ==
    ( /\ pc # "idle"
      /\ Len(Appended) > 0
      /\ IsReply(Last(History))
      /\ ToolCallCount(Last(History)) = 0 )
    => ( /\ pc = "Terminated"
         /\ response.messages = messages
         /\ response.agent = activeAgent
         /\ response.context_variables = contextVariables )

\* C4: a provider reply without tool-call requests ends the run at once,
\* whatever the turn counter: the run resolves with a history whose last
\* message is that reply, and calls no provider and no tool afterwards.
C4_PlainReplyTerminates ==
    /\ []C4_PlainReplyState
    /\ [][pc = "Terminated" => UNCHANGED vars]_vars

C4_Witness ==
    /\ pc = "Terminated"
    /\ turnCount = 1
    /\ TurnsLeft(turnCount, opts.max_turns)
    /\ IsReply(Last(History))
    /\ Last(History).content = "done"

\* the provider asks for one call of echo on turn 1 and, when asked again,
\* answers "done"; tools are executed and max_turns allows two turns
C5_Scenario ==
    /\ opts.execute_tools
    /\ TurnsLeft(1, opts.max_turns)
    /\ providerErrors = 0
    /\ Len(Appended) >= 1
    /\ IsReply(Appended[1])
    /\ ToolCallCount(Appended[1]) = 1
    /\ Appended[1].tool_calls.items[1].function.name = "echo"
    /\ providerCalls >= 2 => /\ Len(Appended) >= 3
                             /\ Appended[3].content = "done"

\* C5: one tool-call request for the registered function echo on turn 1
\* and a plain reply on turn 2 give the input history followed by the
\* assistant message with the request, the tool message with the text echo
\* returned and the final assistant message, after two provider calls and
\* with turns left.
C5_ToolCallRoundTrip ==
    (Settled /\ C5_Scenario) =>
        /\ pc = "Terminated"
        /\ Len(History) = Len(preCall.messages) + 3
        /\ SubSeq(History, 1, Len(preCall.messages)) = preCall.messages
        /\ Appended[2] = Msg("tool", "foo", None, NoList, "call_1", "echo")
        /\ Appended[3] = Msg("assistant", "done", "A", List(<< >>), None, None)
        /\ providerCalls = 2
        /\ TurnsLeft(turnCount, opts.max_turns)

\* after a provider error the run has rejected with it
C6_ProviderErrorState ==
    providerErrors > 0 =>
        /\ pc = "Rejected"
        /\ error = "LLM error"
        /\ response = NoResponse
        /\ providerErrors = 1

\* C6: when the provider call rejects, on the first or on a later turn,
\* run rejects with that error at once: no Response, no second provider
\* error (no retry), and nothing more happens in the run.
C6_ProviderFailureIsFatal ==
    /\ []C6_ProviderErrorState
    /\ [][providerErrors > 0 => UNCHANGED vars]_vars

C6_Witness ==
    /\ pc = "Rejected"
    /\ providerErrors = 1
    /\ toolCycles >= 1
    /\ invoked >= 1

\* C7: a request naming a function that is not registered on the active
\* agent adds exactly one tool message, linked by the request's id and
\* holding the not-found notice, raises nothing and leaves the loop at the
\* next request.
C7_UnknownToolRecovered ==
    [][ ( /\ pc = "ExecutingTools"
          /\ idx <= Len(toolCalls)
          /\ toolCalls[idx].function.name \notin RegisteredNames(activeAgent) )
        => ( /\ partialResponse'.messages =
                   Append(partialResponse.messages,
                          Msg("tool",
                              "Error: Tool " \o toolCalls[idx].function.name
                                  \o " not found.",
                              None, NoList, toolCalls[idx].id,
                              toolCalls[idx].function.name))
             /\ pc' = "ExecutingTools"
             /\ idx' = idx + 1
             /\ error' = None
             /\ invoked' = invoked ) ]_vars

C7_Witness ==
    /\ pc = "ExecutingTools"
    /\ idx = 3
    /\ "missing" \notin RegisteredNames(activeAgent)
    /\ partialResponse.messages =
          << Msg("tool", "Error: Tool missing not found.", None, NoList,
                 "call_1", "missing"),
             Msg("tool", "foo", None, NoList, "call_2", "echo") >>

\* C8: when an invoked function throws, the executor adds one tool message
\* that embeds the error text and carries the request's id, run does not
\* reject, and the loop goes on with the next request.
C8_ToolErrorRecovered ==
    [][ (pc = "AwaitingTool" /\ pending.threw)
        => ( /\ partialResponse'.messages =
                   Append(partialResponse.messages,
                          Msg("tool",
                              "Error executing function "
                                  \o toolCalls[idx].function.name \o ": "
                                  \o pending.error,
                              None, NoList, toolCalls[idx].id,
                              toolCalls[idx].function.name))
             /\ pc' = "ExecutingTools"
             /\ idx' = idx + 1
             /\ error' = None ) ]_vars

\* the error message, then the next request of the turn, then the next turn
C8_Witness ==
    /\ pc = "Terminated"
    /\ Len(Appended) = 4
    /\ Appended[2] = Msg("tool", "Error executing function fail: Error: boom",
                         None, NoList, "call_1", "fail")
    /\ Appended[3] = Msg("tool", "foo", None, NoList, "call_2", "echo")
    /\ IsReply(Appended[4])

\* C9: a return value that cannot be rendered as text is fatal: once the
\* call has settled the run has rejected, without a tool message for the
\* request and without a Response.
C9_CastErrorIsFatal ==
    ( /\ pc \notin {"idle", "AwaitingTool"}
      /\ idx > 1
      /\ toolCalls[idx - 1].function.name = "weird"
      /\ HasFunction(functions, "weird") )
    => ( /\ pc = "Rejected"
         /\ response = NoResponse
         /\ \A i \in 1..Len(partialResponse.messages) :
               partialResponse.messages[i].tool_call_id
                   # toolCalls[idx - 1].id )

\* C10: when setA contributes {a: 1} and a later call of the same turn
\* (setB) contributes {b: 2}, the context store of the Response holds
\* a = 1 and b = 2.
C10_ContributionsMerged ==
    ( /\ pc = "Terminated"
      /\ \E i \in 1..(Len(Appended) - 1) :
            /\ Appended[i] = Msg("tool", "ok", None, NoList, "call_1", "setA")
            /\ Appended[i + 1] =
                  Msg("tool", "ok", None, NoList, "call_2", "setB") )
    => ( /\ ctxHeap[response.context_variables]["a"] = "1"
         /\ ctxHeap[response.context_variables]["b"] = "2" )

\* the position of the provider reply that opened the turn of Appended[i]
TurnReply(i) ==
    CHOOSE j \in 0..(i - 1) :
        /\ j > 0 => IsReply(Appended[j])
        /\ \A k \in (j + 1)..(i - 1) : ~IsReply(Appended[k])

\* C11: every key of the input context store that no tool contributed a
\* value for is in the context store of the Response with its original
\* value (the registered functions contribute a and b only).
C11_KeysNeverLost ==
    pc = "Terminated" =>
        \A k \in Keys \ {"a", "b"} :
            preCall.context_variables[k] # Absent =>
                ctxHeap[response.context_variables][k]
                    = preCall.context_variables[k]

\* the turn before the final plain reply held a call of transfer whose
\* normalized result names agent B
C12_Scenario ==
    /\ pc = "Terminated"
    /\ Len(Appended) >= 3
    /\ IsReply(Last(History))
    /\ ToolCallCount(Last(History)) = 0
    /\ \E i \in 1..(Len(Appended) - 1) :
          /\ Appended[i].role = "tool"
          /\ Appended[i].tool_name = "transfer"
          /\ Appended[i].content = "{\"assistant\":\"B\"}"
          /\ TurnReply(Len(Appended)) = TurnReply(i)

\* C12: when a tool result names an agent other than the active one and
\* the run ends with a plain reply on the following turn, the agent of
\* the Response is the named agent and not the agent run was called with.
C12_HandoffReturned ==
    C12_Scenario => response.agent = "B" /\ response.agent # "A"

C12_Witness ==
    /\ C12_Scenario
    /\ Last(History).sender = "B"
    /\ request.provider = "providerB"

\* C13: in the history of a Response every tool message that run appended
\* carries the id of a request of the provider reply that opened its turn.
C13_ToolMessagesLinked ==
    pc = "Terminated" =>
        \A i \in 1..Len(Appended) :
            Appended[i].role = "tool" =>
                /\ TurnReply(i) > 0
                /\ \E r \in 1..ToolCallCount(Appended[TurnReply(i)]) :
                      Appended[TurnReply(i)].tool_calls.items[r].id
                          = Appended[i].tool_call_id

\* what handleToolCalls of a call of run that is alone makes of the
\* requests from position i on: its partialResponse and the context object
RECURSIVE ToolsAlone(_, _, _, _)
ToolsAlone(calls, i, fns, st) ==
    IF i > Len(calls) THEN st
    ELSE IF ~HasFunction(fns, calls[i].function.name)
    THEN ToolsAlone(calls, i + 1, fns,
                    [st EXCEPT !.partial.messages =
                                  Append(@, NotFoundMessage(calls[i]))])
    ELSE LET funcMetadata == GetFunction(fns, calls[i].function.name)
             args == InjectContext(funcMetadata,
                                   JsonParse(calls[i].function.arguments).value,
                                   "own")
             outcome == FuncBody(funcMetadata.func, ObjectValues(args))
         IN  ToolsAlone(calls, i + 1, fns,
                        [partial |-> AfterCall(st.partial, calls[i], outcome),
                         ctx |-> IF outcome.writes.ref = None THEN st.ctx
                                 ELSE Spread(st.ctx, outcome.writes.set)])

\* the agent, history and context store of a call of run that is alone
\* and is given the replies from position i on
RECURSIVE RunAlone(_, _, _)
RunAlone(replies, i, st) ==
    IF i > Len(replies) THEN st
    ELSE LET llmMessage == processLLMResponse(replies[i], st.agent)
             history == Append(st.messages, llmMessage)
             done == ToolsAlone(llmMessage.tool_calls.items, 1,
                                getFunctionMetadata(st.agent),
                                [partial |-> NewPartialResponse(st.ctx),
                                 ctx |-> st.ctx])
         IN  IF ~ShouldExecuteTools(llmMessage, opts.execute_tools)
             THEN [st EXCEPT !.messages = history]
             ELSE RunAlone(replies, i + 1,
                           [agent |-> NextAgent(st.agent, done.partial.agent),
                            messages |-> history \o done.partial.messages,
                            ctx |-> MergeContext(done.ctx,
                                        done.partial.context_variables)])

\* the Response of a call of run alone with the caller's arguments
ResponseAlone(replies) ==
    RunAlone(replies, 1,
             [agent |-> "A",
              messages |-> JsonCloneMessages(preCall.messages),
              ctx |-> JsonCloneContext(preCall.context_variables)])

\* a call of run that resolved did so with the Response it makes alone
AsAlone(call) ==
    call.pc = "Terminated" =>
        [agent |-> call.response.agent,
         messages |-> msgHeap[call.response.messages],
         ctx |-> ctxHeap[call.response.context_variables]]
            = ResponseAlone(call.received)

\* two calls that were entered have their own array and context object
OwnObjects ==
    (pc # "idle" /\ parked.pc # "idle") =>
        /\ messages # parked.messages
        /\ contextVariables # parked.contextVariables
        /\ { messages, parked.messages } = { "run", "run2" }

\* C14: two calls of run that are interleaved where they await, with the
\* same instance, agents, messages array and context object, share no run
\* state: each resolves with the Response it makes alone of the replies it
\* received, and no step of one call changes the history or the context
\* store of the other or the caller's array and object.
C14_RunsIsolated ==
    /\ [](AsAlone(Locals) /\ AsAlone(parked) /\ OwnObjects)
    /\ [][ /\ msgHeap'[OwnRef(3 - thisCall)] = msgHeap[OwnRef(3 - thisCall)]
           /\ ctxHeap'[OwnRef(3 - thisCall)] = ctxHeap[OwnRef(3 - thisCall)]
           /\ msgHeap'["caller"] = msgHeap["caller"]
           /\ ctxHeap'["caller"] = ctxHeap["caller"] ]_vars

\* both calls resolved after they were switched in flight: one with a
\* context entry a function wrote and agent A, the other handed off to B
C14_Witness ==
    /\ overlapped
    /\ pc = "Terminated"
    /\ parked.pc = "Terminated"
    /\ response.agent = "A"
    /\ ctxHeap[response.context_variables]["m"] = "9"
    /\ parked.response.agent = "B"
    /\ ctxHeap[parked.response.context_variables]["m"] = Absent
    /\ Len(msgHeap[response.messages]) = 4
    /\ Len(msgHeap[parked.response.messages]) = 4

\* the ids of a list of tool-call requests, and of the tool messages of a
\* list of messages that answer one of these requests
RequestIds(calls) == [i \in 1..Len(calls) |-> calls[i].id]
PrimaryIds(msgs, calls) ==
    LET primary(m) ==
            /\ m.role = "tool"
            /\ \E i \in 1..Len(calls) : calls[i].id = m.tool_call_id
    IN  RequestIds([i \in 1..Len(SelectSeq(msgs, primary)) |->
                      [id |-> SelectSeq(msgs, primary)[i].tool_call_id]])

\* the messages of the turn that the reply Appended[j] opened
TurnMessages(j) ==
    LET after == { k \in (j + 1)..Len(Appended) : IsReply(Appended[k]) }
        end == IF after = {} THEN Len(Appended)
               ELSE (CHOOSE k \in after : \A l \in after : k <= l) - 1
    IN  SubSeq(Appended, j + 1, end)

\* inside the executor the tool messages answer the requests handled so
\* far, in the order of the requests; in the history the tool messages of
\* an executed turn answer all its requests in their order
C15_InRequestOrder ==
    /\ pc \in {"ExecutingTools", "AwaitingTool"} =>
          PrimaryIds(partialResponse.messages, toolCalls)
              = SubSeq(RequestIds(toolCalls), 1, idx - 1)
    /\ \A j \in 1..(Len(Appended) - 1) :
          (IsReply(Appended[j]) /\ ToolCallCount(Appended[j]) > 0) =>
              PrimaryIds(TurnMessages(j), Appended[j].tool_calls.items)
                  = RequestIds(Appended[j].tool_calls.items)

\* C15: the tool invocations of one turn are strictly sequential: a
\* function is called only while no other call is awaited and after every
\* earlier request of the turn has been answered, the awaited call
\* settles before anything else happens in the run, and the primary tool
\* messages are in the order of the requests.
C15_Sequential ==
    /\ []C15_InRequestOrder
    /\ [][ /\ invoked' # invoked =>
                /\ pc = "ExecutingTools"
                /\ pending = NoCall
                /\ Len(PrimaryIds(partialResponse.messages, toolCalls))
                      = idx - 1
           /\ pc = "AwaitingTool" =>
                /\ invoked' = invoked
                /\ idx' = idx + 1
                /\ pending' = NoCall ]_vars

\* the second call of a turn is awaited after the first was answered
C15_Witness ==
    /\ pc = "AwaitingTool"
    /\ idx = 2
    /\ toolCalls[2].function.name = "echo"
    /\ partialResponse.messages =
          << Msg("tool", "Error executing function fail: Error: boom",
                 None, NoList, "call_1", "fail") >>

\* C16: with execute_tools false a run that reaches the provider calls no
\* registered function and makes exactly one provider call; it resolves
\* with the input history plus the one assistant message, which keeps its
\* tool-call requests, with no tool message, the agent it was called with
\* and a context store equal to the input store.
C16_ToolsDisabled ==
    (~opts.execute_tools /\ TurnsLeft(0, opts.max_turns)) =>
        /\ invoked = 0
        /\ toolCycles = 0
        /\ pc = "Terminated" =>
              /\ providerCalls = 1
              /\ Len(History) = Len(preCall.messages) + 1
              /\ SubSeq(History, 1, Len(preCall.messages))
                    = preCall.messages
              /\ Last(History).role = "assistant"
              /\ ToolCallCount(Last(History)) = issued
              /\ \A i \in 1..Len(Appended) : Appended[i].role # "tool"
              /\ response.agent = "A"
              /\ ctxHeap[response.context_variables]
                    = preCall.context_variables

\* C17: appendFunction with an argument that is no function throws and
\* leaves the function list as it was: getFunctionMetadata returns the
\* same entries before and after the call.
C17_InvalidAppendRejected ==
    [][ (appended' # appended /\ ~IsCallable(appended'.func))
        => ( /\ appended'.error = "Error: Invalid function"
             /\ agentFunctions' = agentFunctions
             /\ \A a \in Agents :
                   getFunctionMetadata(a)' = getFunctionMetadata(a) ) ]_vars

\* the call failed on an agent that has a function
C17_Witness ==
    /\ appended = [agent |-> "A", func |-> NotAFunction,
                   error |-> "Error: Invalid function"]
    /\ Len(getFunctionMetadata("A")) = 1
    /\ getFunctionMetadata("A")[1].name = "testFunction"

\* C18: getFunctionMetadata returns one entry per function the agent was
\* given, the constructor's first and then the appended ones in call
\* order, and the entry of a decorated function is its metadata; an agent
\* without functions yields the empty list.
C18_RegistrationOrder ==
    \A a \in Agents :
        /\ Len(getFunctionMetadata(a)) = Len(registered[a])
        /\ \A i \in 1..Len(registered[a]) :
              registered[a][i] \in Handles \cup TestHandles =>
                  /\ getFunctionMetadata(a)[i].name = registered[a][i]
                  /\ getFunctionMetadata(a)[i]
                        = FunctionMetadata(registered[a][i])

C18_Witness ==
    /\ registered["A"] = << "get_weather", "anotherTestFunction" >>
    /\ appended.func = "anotherTestFunction"
    /\ getFunctionMetadata("A")[1].description = "get the current weather"
    /\ Len(getFunctionMetadata("A")[2].params) = 2

\* C19: the list getFunctionMetadata returns holds defined metadata
\* records only (a function without metadata is left out), so that no run
\* fails on an undefined entry of it.
C19_UndefinedOmitted ==
    /\ \A a \in Agents :
          \A i \in 1..Len(getFunctionMetadata(a)) :
              getFunctionMetadata(a)[i] # UndefinedMetadata
    /\ error # UndefinedNameError

\* the number of the first i parameters that are not the context store,
\* and of those that are neither optional nor the context store
Shown(params, i) ==
    Cardinality({ j \in 1..i : params[j].type # "ContextVariables" })
Needed(params, i) ==
    Cardinality({ j \in 1..i : /\ ~params[j].optional
                               /\ params[j].type # "ContextVariables" })

\* the name, properties and required of a schema are those of the function
SchemaOf(tool, func) ==
    LET properties == tool.function.parameters.properties
        required == tool.function.parameters.required
    IN  /\ tool.function.name = func.name
        /\ Len(properties) = Shown(func.params, Len(func.params))
        /\ Len(required) = Needed(func.params, Len(func.params))
        /\ \A j \in 1..Len(func.params) :
              /\ func.params[j].type # "ContextVariables" =>
                    /\ properties[Shown(func.params, j)].name
                          = func.params[j].name
                    /\ properties[Shown(func.params, j)].type
                          = func.params[j].type
              /\ (/\ ~func.params[j].optional
                  /\ func.params[j].type # "ContextVariables") =>
                    required[Needed(func.params, j)] = func.params[j].name

\* the request in flight was built from the active agent's functions
Advertised(described(_, _)) ==
    pc = "AwaitingCompletion" =>
        /\ Len(request.tools.items) = Len(getFunctionMetadata(activeAgent))
        /\ \A i \in 1..Len(request.tools.items) :
              /\ SchemaOf(request.tools.items[i],
                          getFunctionMetadata(activeAgent)[i])
              /\ described(request.tools.items[i],
                           getFunctionMetadata(activeAgent)[i])

\* the description is the function's, 'function: <name>' when it has none
DescribedOrAbsent(tool, func) ==
    tool.function.description =
        IF func.description # None THEN func.description
        ELSE "function: " \o func.name

\* the description is the function's, 'function: <name>' when it has none
\* or an empty one
DescribedOrEmpty(tool, func) ==
    tool.function.description =
        IF func.description \notin {None, ""} THEN func.description
        ELSE "function: " \o func.name

\* C20 as stated: the schema of each function has its name, its
\* description or 'function: <name>' when absent, the parameters that are
\* not the context store with their type tags as properties, and the
\* parameters that are neither optional nor the context store, in
\* declaration order, as required.
C20_SchemaAsStated == Advertised(DescribedOrAbsent)

\* C20, amended: as stated, with 'function: <name>' as the description
\* also when the function's description is the empty string.
C20_Schema == Advertised(DescribedOrEmpty)

C20_Witness ==
    /\ pc = "AwaitingCompletion"
    /\ registered["A"] = << "get_weather", "silent" >>
    /\ request.tools.items[1].function.parameters.required
          = << "countryCode", "zipCode" >>
    /\ request.tools.items[2].function.description = "function: silent"
    /\ request.tools.items[2].function.parameters.required = << "level" >>
    /\ Len(request.tools.items[2].function.parameters.properties) = 2

\* C21: for an agent with string instructions getInstructions returns
\* that string on every call, whatever the context store; for function
\* instructions it returns the function applied to the store it is given.
\* Every provider call carries the result as its system message.
C21_InstructionsResolved ==
    pc = "AwaitingCompletion" =>
        /\ AgentParams(activeAgent).instructions # "function" =>
              /\ request.messages[1].content
                    = AgentParams(activeAgent).instructions
              /\ getInstructions(activeAgent, EmptyContext)
                    = AgentParams(activeAgent).instructions
        /\ AgentParams(activeAgent).instructions = "function" =>
              request.messages[1].content
                  = InstructionFn(ctxHeap[contextVariables])

\* agent B, with string instructions, is asked a second time with a
\* context store that holds the key a function added
C21_Witness ==
    /\ pc = "AwaitingCompletion"
    /\ activeAgent = "B"
    /\ turnCount = 2
    /\ ctxHeap[contextVariables]["m"] = "9"
    /\ request.messages[1].content = "You are B"

\* C23: an error of one tool invocation, a payload that cannot be parsed
\* included, never makes run reject: run rejects on a provider error only,
\* and every request handled so far has its linked tool message.
C23_ToolErrorsContained ==
    /\ pc = "Rejected" => providerErrors > 0
    /\ pc \in {"ExecutingTools", "AwaitingTool"} =>
          PrimaryIds(partialResponse.messages, toolCalls)
              = SubSeq(RequestIds(toolCalls), 1, idx - 1)

\* C26: a write of a function to the context object it was handed, with no
\* contribution returned, changes nothing of the run's context store: the
\* keys no function contributes keep the value the run started with, in
\* the store handed to later functions, used for later instructions and
\* returned in the Response.
C26_MutationInvisible ==
    pc # "idle" =>
        \A k \in Keys \ {"a", "b"} :
            ctxHeap[contextVariables][k]
                = JsonCloneContext(preCall.context_variables)[k]

\* the schema names of a request
ToolNames(req) ==
    [i \in 1..Len(req.tools.items) |-> req.tools.items[i].function.name]

\* a call of transfer that was answered with agent B
HandedOff(m) ==
    /\ m.role = "tool"
    /\ m.tool_name = "transfer"
    /\ m.content = "{\"assistant\":\"B\"}"

\* what a provider call carries for the active agent, and which functions
\* the requests of a turn are resolved against
C27_TurnAgent ==
    /\ (pc = "AwaitingCompletion" /\ activeAgent = "B") =>
          /\ request.provider = "providerB"
          /\ request.messages[1].content = "You are B"
          /\ ToolNames(request) = << "echo" >>
          /\ request.tool_choice = None
    /\ (pc = "AwaitingCompletion" /\ activeAgent = "A") =>
          /\ request.provider = DefaultProvider
          /\ request.tool_choice = "auto"
          /\ ToolNames(request) = AgentParams("A").functions
    /\ pc \in {"ExecutingTools", "AwaitingTool"} =>
          /\ { functions[i].name : i \in 1..Len(functions) }
                = RegisteredNames(activeAgent)
          /\ (\E i \in 1..Len(partialResponse.messages) :
                 HandedOff(partialResponse.messages[i])) =>
                /\ activeAgent = "A"
                /\ partialResponse.agent = "B"

\* C27: a handoff takes effect for the next turn only: the active agent
\* changes when the executor has returned and at no other step, the next
\* provider call carries the new agent's instructions, schema and
\* tool-selection policy and goes to its provider (the default one if it
\* has none), and the requests of the handoff turn, those after the
\* handoff included, are resolved against the functions of the agent that
\* was active when the turn began.
C27_HandoffNextTurn ==
    /\ []C27_TurnAgent
    /\ [][ (pc # "idle" /\ activeAgent' # activeAgent)
           => ( /\ pc = "ExecutingTools"
                /\ pc' = "Running"
                /\ activeAgent' = partialResponse.agent
                /\ turnCount' = turnCount + 1 ) ]_vars

\* after transfer, fail (a function of A only) was still found and called;
\* the next provider call is B's
C27_Witness ==
    /\ pc = "AwaitingCompletion"
    /\ activeAgent = "B"
    /\ request.provider = "providerB"
    /\ Len(toolCalls) = 2
    /\ HandedOff(partialResponse.messages[1])
    /\ partialResponse.messages[2]
          = Msg("tool", "Error executing function fail: Error: boom",
                None, NoList, "call_2", "fail")

\* C29 as stated: every assistant message run appends for a provider reply
\* carries the name of the agent that was active when the completion was
\* requested: A's up to and including the reply that asks for the handoff,
\* B's after the handoff was answered.
C29_EveryReplyTagged ==
    \A j \in 1..Len(Appended) :
        IsReply(Appended[j]) =>
            Appended[j].sender =
                IF \E i \in 1..(j - 1) : HandedOff(Appended[i])
                THEN "B" ELSE "A"

\* C29: the tag is set on the message made of a completion the
\* provider resolved with; the placeholder run makes when the provider
\* resolves with no completion has no sender.
C29_RepliesTagged ==
    /\ \A j \in 1..Len(Appended) :
          (IsReply(Appended[j])
           /\ Appended[j].content = "No completion provided") =>
              Appended[j].sender = None
    /\ \A j \in 1..Len(Appended) :
          (IsReply(Appended[j])
           /\ Appended[j].content # "No completion provided") =>
              Appended[j].sender =
                  IF \E i \in 1..(j - 1) : HandedOff(Appended[i])
                  THEN "B" ELSE "A"

C29_Witness ==
    /\ pc = "Terminated"
    /\ Len(Appended) = 3
    /\ Appended[1].sender = "A"
    /\ Appended[1].tool_calls.items[1].function.name = "transfer"
    /\ HandedOff(Appended[2])
    /\ Appended[3].sender = "B"
    /\ Appended[3].content = "done"

\* C30: every provider call receives one leading system message with the
\* active agent's instructions resolved against the current context store,
\* followed by the whole current history; the system message is not kept:
\* the history is the input messages followed by assistant and tool
\* messages only.
C30_SystemMessageSynthetic ==
    /\ pc = "AwaitingCompletion" =>
          /\ Len(request.messages) = Len(History) + 1
          /\ request.messages[1]
                = Msg("system",
                      IF activeAgent = "A"
                      THEN InstructionFn(ctxHeap[contextVariables])
                      ELSE "You are B",
                      None, NoList, None, None)
          /\ SubSeq(request.messages, 2, Len(request.messages)) = History
    /\ pc # "idle" =>
          /\ SubSeq(History, 1, Len(preCall.messages))
                = JsonCloneMessages(preCall.messages)
          /\ \A j \in 1..Len(Appended) :
                Appended[j].role \in {"assistant", "tool"}

\* the second provider call, with a context store a function has written
\* to and a history of three messages
C30_Witness ==
    /\ pc = "AwaitingCompletion"
    /\ providerCalls = 2
    /\ activeAgent = "A"
    /\ ctxHeap[contextVariables]["m"] = "9"
    /\ Len(request.messages) = 4
    /\ request.messages[4].role = "tool"

\* C25: within one turn, the context store handed to the k-th invocation
\* holds the contributions the invocations before it returned: after setA
\* it has a = "1", after setB it has b = "2".
C25_EarlierContributionsVisible ==
    (pc = "AwaitingTool" /\ calledWith.func = "mutate") =>
        \A j \in 1..(idx - 1) :
            /\ toolCalls[j].function.name = "setA"
                  => calledWith.store["a"] = "1"
            /\ toolCalls[j].function.name = "setB"
                  => calledWith.store["b"] = "2"

(***************************************************************************)
(* A run of an agent with the functions get_weather(countryCode, zipCode,  *)
(* contextVars) and silent(vars, note, level), whose payloads name the     *)
(* parameters in either order, leave optional ones out, or carry a value   *)
(* under the name of the context parameter.                                *)
(***************************************************************************)
InjectionTemplates ==
    { << "get_weather", WeatherArgs >>, << "get_weather", SwappedArgs >>,
      << "silent", LevelArgs >>, << "silent", NoteLevelArgs >>,
      << "get_weather", ForgedArgs >>, << "get_weather", ForgedFirstArgs >> }

InjectionCompletions(left) ==
    { Completion("done", NoList) }
    \cup UNION { { Completion(None,
                       List([i \in 1..n |->
                               ToolCall(CallId(i), f[i][1], f[i][2])])) :
                     f \in [1..n -> InjectionTemplates] } :
                 n \in 1..Min(MaxToolCalls, left) }

InjectionInit ==
    /\ Constructed([a \in Agents |->
                      IF a = "A" THEN List(<< "get_weather", "silent" >>)
                      ELSE List(AgentParams(a).functions)])
    /\ \E cv \in { EmptyContext,
                   [EmptyContext EXCEPT !["temperature"] = "114"] } :
          Called([max_turns |-> Finite(MaxTurns), execute_tools |-> TRUE],
                 << UserMessage >>, cv)
    /\ NotStarted
    /\ OneCall
    /\ ProviderIdle
    /\ Configured(NoMaxTurns)

InjectionNext ==
    \/ Run
    \/ ReturnResponse
    \/ RequestCompletion
    \/ \E completion \in InjectionCompletions(MaxRequests - issued) :
          CompletionResolved(completion)
    \/ InvokeTool
    \/ ToolSettled
    \/ EndToolCalls

InjectionSpec == InjectionInit /\ [][InjectionNext]_vars

\* the i-th positional argument; undefined beyond the last one
ArgAt(argv, i) ==
    IF i <= Len(argv) THEN argv[i] ELSE [str |-> None, ref |-> None]

\* the payload's value of a key; undefined if the payload has no such key
PayloadValue(payload, key) ==
    IF \E i \in 1..Len(payload) : payload[i].key = key
    THEN payload[CHOOSE i \in 1..Len(payload) : payload[i].key = key].value
    ELSE [str |-> None, ref |-> None]

\* C24: a function that declares a context-store parameter is called with
\* the run's context store at that parameter's position and, at the
\* position of every other parameter, with the payload's value of that
\* parameter's name (undefined if the payload leaves it out), whatever the
\* order of the payload's keys.
C24_BoundByName ==
    pc = "AwaitingTool" =>
        LET params == FunctionMetadata(calledWith.func).params
            payload == JsonParse(toolCalls[idx].function.arguments).value
        IN  \A i \in 1..Len(params) :
                ArgAt(calledWith.argv, i) =
                    IF params[i].type = "ContextVariables"
                    THEN ContextRef(contextVariables)
                    ELSE PayloadValue(payload, params[i].name)

\* the position of the parameter that stands for the context store
ContextParam(params) ==
    CHOOSE i \in 1..Len(params) :
        /\ params[i].type = "ContextVariables"
        /\ \A j \in 1..(i - 1) : params[j].type # "ContextVariables"

\* C35: a function that declares a context-store parameter receives the
\* run's own context store as that argument, whatever the payload carries
\* under the parameter's name, and no argument of the call is the value the
\* payload carried under that name.
C35_OwnContextStore ==
    pc = "AwaitingTool" =>
        LET params == FunctionMetadata(calledWith.func).params
        IN  (\E i \in 1..Len(params) : params[i].type = "ContextVariables")
            => /\ ArgAt(calledWith.argv, ContextParam(params))
                      = ContextRef(contextVariables)
               /\ \A i \in 1..Len(calledWith.argv) :
                      calledWith.argv[i] # ArgString("forged")

(***************************************************************************)
(* A run of an agent with two handoff functions, transfer (to agent B)     *)
(* and transferC (to agent C), next to functions that name no agent.       *)
(***************************************************************************)
HandoffTemplates ==
    { << "transfer", EmptyArgs >>, << "transferC", EmptyArgs >>,
      << "fail", EmptyArgs >>, << "missing", EmptyArgs >>,
      << "echo", FooArgs >> }

HandoffCompletions(left) ==
    { Completion("done", NoList) }
    \cup UNION { { Completion(None,
                       List([i \in 1..n |->
                               ToolCall(CallId(i), f[i][1], f[i][2])])) :
                     f \in [1..n -> HandoffTemplates] } :
                 n \in 1..Min(MaxToolCalls, left) }

HandoffInit ==
    /\ Constructed([a \in Agents |->
                      IF a = "A"
                      THEN List(<< "echo", "fail", "transfer", "transferC" >>)
                      ELSE List(AgentParams(a).functions)])
    /\ Called([max_turns |-> Finite(MaxTurns), execute_tools |-> TRUE],
              << UserMessage >>, EmptyContext)
    /\ NotStarted
    /\ OneCall
    /\ ProviderIdle
    /\ Configured(NoMaxTurns)

HandoffNext ==
    \/ Run
    \/ ReturnResponse
    \/ RequestCompletion
    \/ \E completion \in HandoffCompletions(MaxRequests - issued) :
          CompletionResolved(completion)
    \/ ToolNotFound
    \/ InvokeTool
    \/ ToolSettled
    \/ EndToolCalls

HandoffSpec == HandoffInit /\ [][HandoffNext]_vars

\* the agent the request names once executed: transfer names B and
\* transferC names C if the active agent has the function
NamedBy(toolCall) ==
    IF ~HasFunction(functions, toolCall.function.name) THEN None
    ELSE IF toolCall.function.name = "transfer" THEN "B"
    ELSE IF toolCall.function.name = "transferC" THEN "C"
    ELSE None

\* the agent named by the last of the first n requests that names one
LastNamed(n) ==
    IF \E j \in 1..n : NamedBy(toolCalls[j]) # None
    THEN NamedBy(toolCalls[CHOOSE j \in 1..n :
                     /\ NamedBy(toolCalls[j]) # None
                     /\ \A k \in (j + 1)..n : NamedBy(toolCalls[k]) = None])
    ELSE None

\* C28: of the agents the requests of a turn name, the executor keeps the
\* last one in request order; a later request that fails, is not found or
\* names no agent does not clear it; when the executor has returned, that
\* agent becomes the active agent of the next turn.
C28_LastHandoffWins ==
    /\ [](pc = "ExecutingTools" =>
             partialResponse.agent = LastNamed(idx - 1))
    /\ [][ (pc = "ExecutingTools" /\ pc' = "Running") =>
              activeAgent' = IF LastNamed(Len(toolCalls)) # None
                             THEN LastNamed(Len(toolCalls))
                             ELSE activeAgent ]_vars

\* both handoffs were asked for in one turn, B first, and the next turn
\* is C's
C28_Witness ==
    /\ pc = "AwaitingCompletion"
    /\ providerCalls = 2
    /\ Len(toolCalls) = 2
    /\ toolCalls[1].function.name = "transfer"
    /\ toolCalls[2].function.name = "transferC"
    /\ activeAgent = "C"
    /\ request.messages[1].content = "You are C"

(***************************************************************************)
(* OpenAIProvider (provider/openai.provider.ts).  A tool is a record with  *)
(* a type and a function; the function carries the kind of value it is     *)
(* ("object", "null", "string") next to the fields of the object.          *)
(***************************************************************************)
MaxTools == 2

NoParameters == [type |-> None, properties |-> << >>, required |-> << >>]

\* a function value of the given kind that has no field
FunctionValue(kind) ==
    [kind |-> kind, name |-> None, description |-> None,
     parameters |-> NoParameters]

\* a tool as functionToObject makes it
AsTool(schema) ==
    [type |-> schema.type,
     function |-> [kind |-> "object", name |-> schema.function.name,
                   description |-> schema.function.description,
                   parameters |-> schema.function.parameters]]

\* typeof value
TypeOf(value) == IF value.kind = "null" THEN "object" ELSE value.kind

\* { ...value }: the spread of null or of a string of length 0 is {}
SpreadFunction(value) ==
    IF value.kind = "object" THEN value ELSE FunctionValue("object")

\* String.prototype.toLowerCase on the type tags in use
ToLowerCase(type) ==
    CASE type = "String" -> "string"
      [] type = "Number" -> "number"
      [] type = "Boolean" -> "boolean"
      [] OTHER -> type

\* this.logger.error(...) where this is the provider, or undefined
LoggerError(thisBound) ==
    IF thisBound THEN None
    ELSE "TypeError: Cannot read properties of undefined (reading 'logger')"

\* convertFunctionDefinition, lines 39-75
convertFunctionDefinition(tool, thisBound) ==
    IF tool.type # "function" \/ TypeOf(tool.function) # "object"
    THEN [ok |-> FALSE,
          error |-> IF LoggerError(thisBound) # None
                    THEN LoggerError(thisBound)
                    ELSE "Error: Invalid function definition",
          tool |-> tool]
    ELSE LET convertedFunction == SpreadFunction(tool.function)
             properties == convertedFunction.parameters.properties
         IN  [ok |-> TRUE, error |-> None,
              tool |->
                 [type |-> "function",
                  function |->
                     [convertedFunction EXCEPT
                         !.parameters.properties =
                             [i \in 1..Len(properties) |->
                                 [properties[i] EXCEPT
                                     !.type = ToLowerCase(@)]]]]]

ApiMessage(role, content, tool_calls, tool_call_id) ==
    [role |-> role, content |-> content, tool_calls |-> tool_calls,
     tool_call_id |-> tool_call_id]

\* convertMessages, lines 82-133: one message
convertMessage(msg) ==
    CASE msg.role \in {"system", "user"} ->
            [ok |-> TRUE, error |-> None,
             message |-> ApiMessage(msg.role, msg.content, NoList, None)]
      [] msg.role = "assistant" ->
            [ok |-> TRUE, error |-> None,
             message |->
                ApiMessage("assistant",
                           IF msg.content # None /\ msg.content # ""
                           THEN msg.content ELSE None,
                           IF msg.tool_calls.present
                              /\ Len(msg.tool_calls.items) > 0
                           THEN List([i \in 1..Len(msg.tool_calls.items) |->
                                   ToolCall(msg.tool_calls.items[i].id,
                                     msg.tool_calls.items[i].function.name,
                                     msg.tool_calls.items[i].function
                                        .arguments)])
                           ELSE NoList,
                           None)]
      [] msg.role = "tool" ->
            [ok |-> TRUE, error |-> None,
             message |-> ApiMessage("tool", msg.content, NoList,
                                    msg.tool_call_id)]
      [] OTHER ->
            [ok |-> FALSE,
             error |-> "Error: Unsupported message role: " \o msg.role,
             message |-> NoApiMessage]

\* the first element a map callback throws for
FirstFailure(results) ==
    CHOOSE i \in 1..Len(results) :
        /\ ~results[i].ok
        /\ \A j \in 1..(i - 1) : results[j].ok

\* the tools a provider is given
ToolInputs ==
    { AsTool(functionToObject(FunctionMetadata("echo"))),
      AsTool(functionToObject(FunctionMetadata("anotherTestFunction"))),
      [type |-> "function", function |-> FunctionValue("null")],
      [type |-> "function", function |-> FunctionValue("string")],
      [AsTool(functionToObject(FunctionMetadata("echo")))
          EXCEPT !.type = "retrieval"] }

ToolLists ==
    { NoList }
    \cup { List(t) : t \in UNION { [1..n -> ToolInputs] : n \in 0..MaxTools } }

ProviderMessages ==
    { << UserMessage >>,
      << Msg("system", "You are B", None, NoList, None, None), UserMessage,
         Msg("assistant", "", "B",
             List(<< ToolCall(CallId(1), "echo", FooArgs) >>), None, None),
         Msg("tool", "foo", None, NoList, CallId(1), "echo") >>,
      << Msg("function", "foo", None, NoList, None, None) >> }

ProviderParams ==
    [messages : ProviderMessages, tools : ToolLists,
     tool_choice : {None, "auto"}]

\* generateCompletion, lines 140-161: the tools are converted by a callback
\* that map calls without a receiver, then the messages, then the API is
\* called; an error of either conversion is logged and thrown again
GenerateCompletion(params) ==
    /\ gcPc = "idle"
    /\ gcParams' = params
    /\ LET converted ==
              [i \in 1..Len(params.tools.items) |->
                  convertFunctionDefinition(params.tools.items[i], FALSE)]
           msgs == [i \in 1..Len(params.messages) |->
                      convertMessage(params.messages[i])]
       IN  IF \E i \in 1..Len(converted) : ~converted[i].ok
           THEN /\ gcPc' = "Rejected"
                /\ gcError' = converted[FirstFailure(converted)].error
                /\ UNCHANGED << apiRequest, apiCalls >>
           ELSE IF \E i \in 1..Len(msgs) : ~msgs[i].ok
           THEN /\ gcPc' = "Rejected"
                /\ gcError' = msgs[FirstFailure(msgs)].error
                /\ UNCHANGED << apiRequest, apiCalls >>
           ELSE /\ gcPc' = "AwaitingApi"
                /\ apiRequest' =
                      [model |-> "gpt-4o-mini",
                       messages |-> [i \in 1..Len(msgs) |-> msgs[i].message],
                       tools |-> IF params.tools.present
                                 THEN List([i \in 1..Len(converted) |->
                                              converted[i].tool])
                                 ELSE NoList,
                       tool_choice |-> params.tool_choice]
                /\ apiCalls' = apiCalls + 1
                /\ UNCHANGED gcError
    /\ UNCHANGED << gcResult, callVars, received, agentVars, opts, config,
                    msgHeap, ctxHeap, preCall, pc, runVars, request, execVars,
                    response, error, ghostVars >>

\* what chat.completions.create resolves with: the message of the first
\* choice, or no choice
ApiChoices ==
    { << >>,
      << ApiMessage("assistant", "Test response", NoList, None) >>,
      << ApiMessage("assistant", None,
                    List(<< ToolCall(CallId(1), "echo", FooArgs) >>),
                    None) >> }

\* lines 163-184
ApiResolved(choices) ==
    /\ gcPc = "AwaitingApi"
    /\ IF Len(choices) > 0
       THEN /\ gcResult' = ApiMessage(choices[1].role,
                                      OrEmpty(choices[1].content),
                                      choices[1].tool_calls, None)
            /\ gcPc' = "Resolved"
            /\ UNCHANGED gcError
       ELSE /\ gcError' = "Error: No completion choices returned from OpenAI"
            /\ gcPc' = "Rejected"
            /\ UNCHANGED gcResult
    /\ UNCHANGED << gcParams, apiRequest, apiCalls, callVars, received,
                    agentVars, opts, config, msgHeap, ctxHeap, preCall, pc,
                    runVars, request, execVars, response, error, ghostVars >>

\* lines 186-191: the API call rejects and the error is thrown again
ApiRejected ==
    /\ gcPc = "AwaitingApi"
    /\ gcError' = "Error: API Error"
    /\ gcPc' = "Rejected"
    /\ UNCHANGED << gcParams, apiRequest, apiCalls, gcResult, callVars,
                    received, agentVars, opts, config, msgHeap, ctxHeap,
                    preCall, pc, runVars, request, execVars, response, error,
                    ghostVars >>

ProviderInit ==
    /\ Constructed([a \in Agents |-> List(AgentParams(a).functions)])
    /\ Called([max_turns |-> Infinity, execute_tools |-> TRUE],
              << UserMessage >>, EmptyContext)
    /\ NotStarted
    /\ OneCall
    /\ ProviderIdle
    /\ Configured(NoMaxTurns)

ProviderNext ==
    \/ \E params \in ProviderParams : GenerateCompletion(params)
    \/ \E choices \in ApiChoices : ApiResolved(choices)
    \/ ApiRejected

ProviderSpec == ProviderInit /\ [][ProviderNext]_vars

\* a tool the provider is to refuse: its function is not an object, or its
\* type is not 'function'
InvalidTool(tool) ==
    \/ tool.function.kind # "object"
    \/ tool.type # "function"

\* C22: generateCompletion, given a tool whose function definition is not
\* an object (function: null, for one) or whose type is not 'function',
\* rejects with the error 'Invalid function definition' and does not call
\* the OpenAI API.
C22_InvalidToolRejected ==
    (/\ gcPc # "idle"
     /\ \E i \in 1..Len(gcParams.tools.items) :
           InvalidTool(gcParams.tools.items[i])) =>
        /\ gcPc = "Rejected"
        /\ gcError = "Error: Invalid function definition"
        /\ apiCalls = 0

\* the tool message run made for a request of the function extra
IsExtraPrimary(m) ==
    /\ m.role = "tool"
    /\ m.tool_name = "extra"
    /\ m.content = "ok"

\* in the executor and in the history, the messages a result carried
\* stand right after the tool message of their request
C31_ExtrasInPlace ==
    /\ \A i \in 1..Len(partialResponse.messages) :
          IsExtraPrimary(partialResponse.messages[i]) =>
              /\ Len(partialResponse.messages) >= i + Len(ExtraMessages)
              /\ SubSeq(partialResponse.messages, i + 1,
                        i + Len(ExtraMessages)) = ExtraMessages
    /\ \A i \in 1..Len(Appended) :
          IsExtraPrimary(Appended[i]) =>
              /\ Len(Appended) >= i + Len(ExtraMessages)
              /\ SubSeq(Appended, i + 1, i + Len(ExtraMessages))
                    = ExtraMessages

\* C31: when a structured tool result carries extra messages, the settled
\* call adds the request's tool message and right after it the carried
\* messages, unchanged and in their order, to what the executor has
\* gathered; the tool message of a later request comes after them.
C31_ExtrasAfterPrimary ==
    /\ []C31_ExtrasInPlace
    /\ [][ ( /\ pc = "AwaitingTool"
             /\ ~pending.threw
             /\ isResult(pending.raw)
             /\ pending.raw.messages.present )
           => partialResponse'.messages =
                 partialResponse.messages
                 \o << Msg("tool", pending.raw.value, None, NoList,
                           toolCalls[idx].id, toolCalls[idx].function.name) >>
                 \o pending.raw.messages.items ]_vars

\* extra was asked for first and echo second: the carried messages are
\* between the two tool messages
C31_Witness ==
    /\ pc = "Terminated"
    /\ Len(Appended) >= 5
    /\ IsExtraPrimary(Appended[2])
    /\ Appended[2].tool_call_id = "call_1"
    /\ SubSeq(Appended, 3, 4) = ExtraMessages
    /\ Appended[5] = Msg("tool", "foo", None, NoList, "call_2", "echo")

(***************************************************************************)
(* A run of an agent whose functions return every kind of value: a string, *)
(* nothing, an Agent, an object without a string form, and Results that    *)
(* carry an agent, a context contribution or messages.                     *)
(***************************************************************************)
NormalizerTemplates ==
    { << "echo", FooArgs >>, << "silent", LevelArgs >>,
      << "transfer", EmptyArgs >>, << "transferResult", EmptyArgs >>,
      << "weird", EmptyArgs >>, << "setA", EmptyArgs >>,
      << "extra", EmptyArgs >>, << "fail", EmptyArgs >> }

NormalizerCompletions(left) ==
    { Completion("done", NoList) }
    \cup UNION { { Completion(None,
                       List([i \in 1..n |->
                               ToolCall(CallId(i), f[i][1], f[i][2])])) :
                     f \in [1..n -> NormalizerTemplates] } :
                 n \in 1..Min(MaxToolCalls, left) }

NormalizerInit ==
    /\ Constructed([a \in Agents |->
                      IF a = "A"
                      THEN List(<< "echo", "silent", "transfer",
                                   "transferResult", "weird", "setA",
                                   "extra", "fail" >>)
                      ELSE List(AgentParams(a).functions)])
    /\ Called([max_turns |-> Finite(MaxTurns), execute_tools |-> TRUE],
              << UserMessage >>, EmptyContext)
    /\ NotStarted
    /\ OneCall
    /\ ProviderIdle
    /\ Configured(NoMaxTurns)

NormalizerNext ==
    \/ Run
    \/ ReturnResponse
    \/ RequestCompletion
    \/ \E completion \in NormalizerCompletions(MaxRequests - issued) :
          CompletionResolved(completion)
    \/ InvokeTool
    \/ ToolSettled
    \/ EndToolCalls

NormalizerSpec == NormalizerInit /\ [][NormalizerNext]_vars

\* what the normalizer makes of the value the awaited call returned
C32_Normalized ==
    (pc = "AwaitingTool" /\ ~pending.threw) =>
        LET raw == pending.raw
            cast == handleFunctionResult(raw)
        IN  IF raw.type \notin {"string", "undefined"} /\ raw.value # None
            THEN /\ cast.ok
                 /\ cast.result.value = raw.value
                 /\ cast.result.agent = raw.agent
                 /\ cast.result.context_variables = raw.context_variables
                 /\ cast.result.messages = raw.messages
            ELSE IF raw.type = "Agent"
            THEN /\ cast.ok
                 /\ cast.result.value
                       = "{\"assistant\":\"" \o raw.agent \o "\"}"
                 /\ cast.result.agent = raw.agent
                 /\ cast.result.messages = NoList
            ELSE /\ raw.type = "string" =>
                       cast.ok /\ cast.result.value = raw.str
                 /\ raw.type = "undefined" =>
                       cast.ok /\ cast.result.value = "undefined"
                 /\ cast.ok =>
                       /\ cast.result.agent = None
                       /\ cast.result.messages = NoList

\* C32: the normalizer classifies a returned value in this order: an
\* object with a string value is the Result as it is, with its agent,
\* context and messages; else an Agent gives a Result whose value is the
\* note {"assistant": name} and whose agent is that Agent; else the string
\* form of the value is the Result value and there is no agent.  The
\* executor records what the normalizer gave.
C32_ResultNormalizer ==
    /\ []C32_Normalized
    /\ [][ (pc = "AwaitingTool" /\ ~pending.threw /\ pending.raw.type # "bare")
           => /\ partialResponse'.messages[Len(partialResponse.messages) + 1]
                    .content
                    = CASE pending.raw.type = "string" -> pending.raw.str
                        [] pending.raw.type = "undefined" -> "undefined"
                        [] pending.raw.type = "Agent" ->
                              "{\"assistant\":\"" \o pending.raw.agent
                                  \o "\"}"
                        [] OTHER -> pending.raw.value
              /\ partialResponse'.agent
                    = IF pending.raw.agent # None THEN pending.raw.agent
                      ELSE partialResponse.agent ]_vars

\* a Result that names agent B was passed on as it is, after an Agent was
\* returned as such
C32_Witness ==
    /\ pc = "ExecutingTools"
    /\ idx = 3
    /\ toolCalls[1].function.name = "silent"
    /\ toolCalls[2].function.name = "transferResult"
    /\ partialResponse.agent = "B"
    /\ partialResponse.messages =
          << Msg("tool", "undefined", None, NoList, "call_1", "silent"),
             Msg("tool", "moved", None, NoList, "call_2",
                 "transferResult") >>

(***************************************************************************)
(* Runs with a finite max_turns in which whatever is awaited settles: the  *)
(* event loop resumes run when the provider call or the function call it   *)
(* awaits has settled, so a step that can be taken is taken.               *)
(***************************************************************************)
FiniteInit ==
    /\ Constructed([a \in Agents |-> List(AgentParams(a).functions)])
    /\ \E o \in [max_turns : MaxTurnsInputs \ {Infinity},
                 execute_tools : BOOLEAN] :
          Called(o, << UserMessage >>, EmptyContext)
    /\ NotStarted
    /\ OneCall
    /\ ProviderIdle
    /\ Configured(NoMaxTurns)

\* the requests of the replies: a function that returns, one that throws,
\* one that hands off, a name that is not registered and a payload that
\* is not JSON
FiniteTemplates ==
    { << "echo", FooArgs >>, << "echo", BadArgs >>, << "fail", EmptyArgs >>,
      << "transfer", EmptyArgs >>, << "missing", EmptyArgs >> }

FiniteCompletions(left) ==
    { NoCompletion, Completion("done", NoList) }
    \cup UNION { { Completion(None,
                       List([i \in 1..n |->
                               ToolCall(CallId(i), f[i][1], f[i][2])])) :
                     f \in [1..n -> FiniteTemplates] } :
                 n \in 1..Min(MaxToolCalls, left) }

FiniteNext ==
    \/ Run
    \/ ReturnResponse
    \/ RequestCompletion
    \/ CompletionRejected
    \/ \E completion \in FiniteCompletions(MaxRequests - issued) :
          CompletionResolved(completion)
    \/ ToolNotFound
    \/ ArgumentsRejected
    \/ InvokeTool
    \/ ToolSettled
    \/ EndToolCalls

FiniteSpec == FiniteInit /\ [][FiniteNext]_vars /\ WF_vars(FiniteNext)

\* C33: with max_turns a finite N, when every provider call and every
\* function call settles, a run that was entered resolves or rejects, and
\* it has made at most N provider calls (none for N below 1), whatever the
\* provider replied.
C33_Terminates ==
    /\ [](providerCalls <= Max0(opts.max_turns.n))
    /\ (pc # "idle") ~> Settled

\* the run used up its two turns and resolved
C33_Witness ==
    /\ pc = "Terminated"
    /\ opts.max_turns = Finite(2)
    /\ providerCalls = 2
    /\ toolCycles = 2
    /\ ~IsReply(Last(History))

\* C36: a call of appendFunction leaves a list that getFunctionMetadata
\* returned before it with the length and the entries it had, and when the
\* call returns, the list getFunctionMetadata returns afterwards is the
\* earlier one followed by the metadata of the new function.
C36_SnapshotsKept ==
    [][ appended' # appended
        => /\ EntriesOf(metadataList, agentFunctions)'
                 = EntriesOf(metadataList, agentFunctions)
           /\ \A a \in Agents :
                 (appended'.agent = a /\ appended'.error = None)
                 => getFunctionMetadata(a)'
                       = Append(getFunctionMetadata(a),
                                MetadataOf(appended'.func)) ]_vars

\* a list of one entry was returned, and a function was appended after it
C36_Witness ==
    /\ metadataList.agent = "A"
    /\ Len(EntriesOf(metadataList, agentFunctions)) = 1
    /\ appended.agent = "A"
    /\ appended.error = None
    /\ Len(getFunctionMetadata("A")) = 2
    /\ getFunctionMetadata("A")[2] = MetadataOf(appended.func)

\* s is the beginning of t
IsPrefix(s, t) == Len(s) <= Len(t) /\ SubSeq(t, 1, Len(s)) = s

\* the position in Appended of the j-th provider reply
ReplyAt(j) ==
    CHOOSE i \in 1..Len(Appended) :
        /\ IsReply(Appended[i])
        /\ Cardinality({ k \in 1..i : IsReply(Appended[k]) }) = j

ReplyCount == Cardinality({ i \in 1..Len(Appended) : IsReply(Appended[i]) })

\* what the turn of the j-th reply added after the reply
AddedAfterReply(j) ==
    SubSeq(Appended, ReplyAt(j) + 1,
           IF j < ReplyCount THEN ReplyAt(j + 1) - 1 ELSE Len(Appended))

\* the turn of the j-th reply has been completed
TurnCompleted(j) == j <= turnCount \/ pc = "Terminated"

\* a tool message that handleToolCalls made for a request
IsPrimary(m) ==
    /\ m.role = "tool"
    /\ \A k \in 1..Len(ExtraMessages) : m # ExtraMessages[k]

\* the history starts with the deep copy of the input, and what was added
\* starts with a reply, one per reply received
CopyThenReplies ==
    pc # "idle" =>
        /\ IsPrefix(JsonCloneMessages(preCall.messages), History)
        /\ Len(Appended) > 0 => IsReply(Appended[1])
        /\ ReplyCount = Len(received)

\* in no step of a run is a message of the history removed or changed
OnlyAppended == [][pc # "idle" => IsPrefix(History, History')]_vars

\* C38 as stated: the history starts with the deep copy of the input
\* messages, messages are only added at its end, and a completed turn adds
\* one assistant message followed by the tool messages of its requests and
\* nothing else.
C38_OnlyToolMessages ==
    /\ [](/\ CopyThenReplies
          /\ \A j \in 1..ReplyCount :
                TurnCompleted(j) =>
                   LET added == AddedAfterReply(j)
                   IN  /\ Len(added)
                             = IF opts.execute_tools
                               THEN ToolCallCount(Appended[ReplyAt(j)])
                               ELSE 0
                       /\ \A i \in 1..Len(added) : IsPrimary(added[i]))
    /\ OnlyAppended

\* C38: the history starts with the deep copy of the input messages,
\* messages are only added at its end, and a completed turn adds one
\* provider reply followed by one tool message per request and, after the
\* tool message of a request, the extra messages its result carried.
C38_AppendOnly ==
    /\ [](/\ CopyThenReplies
          /\ \A j \in 1..ReplyCount :
                TurnCompleted(j) =>
                   LET added == AddedAfterReply(j)
                   IN  /\ Len(SelectSeq(added, IsPrimary))
                             = IF opts.execute_tools
                               THEN ToolCallCount(Appended[ReplyAt(j)])
                               ELSE 0
                       /\ \A i \in 1..Len(added) :
                             \/ IsPrimary(added[i])
                             \/ /\ i > 1
                                /\ \E k \in 1..Len(ExtraMessages) :
                                      added[i] = ExtraMessages[k])
    /\ OnlyAppended

\* a turn of two requests was completed, one of whose results carried
\* extra messages, and a reply without requests ended the run
C38_Witness ==
    /\ pc = "Terminated"
    /\ ReplyCount = 2
    /\ ToolCallCount(Appended[ReplyAt(1)]) = 2
    /\ Len(AddedAfterReply(1)) = 4
    /\ Len(SelectSeq(AddedAfterReply(1), IsPrimary)) = 2
    /\ Len(AddedAfterReply(2)) = 0
    /\ Len(History) = Len(preCall.messages) + 6

\* s is the end of t
IsSuffix(s, t) ==
    Len(s) <= Len(t) /\ SubSeq(t, Len(t) - Len(s) + 1, Len(t)) = s

\* the step in which the loop is left by a break, and the step in which
\* its condition fails
EndsByBreak == pc = "AwaitingCompletion" /\ pc' = "Terminated"
EndsByCounter == pc = "Running" /\ pc' = "Terminated"

\* C39 as stated: the returned history ends with an assistant message
\* exactly when the loop was left by the break; when the loop condition
\* fails, the history ends with the messages of the last tool-execution
\* cycle, which no provider call has answered.
C39_LastMessageTells ==
    [][ (EndsByBreak \/ EndsByCounter) =>
          LET h == msgHeap'[response'.messages]
          IN  /\ EndsByBreak <=> (Len(h) > 0 /\ Last(h).role = "assistant")
              /\ EndsByCounter =>
                    /\ toolCycles >= 1
                    /\ Len(partialResponse.messages) > 0
                    /\ IsSuffix(partialResponse.messages, h)
                    /\ providerCalls' = toolCycles ]_vars

\* C39: a run left by the break returns a history whose last message is
\* the provider's reply.  A run with max_turns N >= 1 whose loop condition
\* fails has performed N cycles and returns a history that ends with the
\* messages of the last cycle (a tool message or an extra message a result
\* carried, never a provider reply), which no provider call has answered.
\* A run with max_turns below 1 returns the deep copy of its input.
C39_LastMessage ==
    [][ (EndsByBreak \/ EndsByCounter) =>
          LET h == msgHeap'[response'.messages]
          IN  /\ EndsByBreak =>
                    /\ Len(h) > Len(preCall.messages)
                    /\ IsReply(Last(h))
                    /\ Last(h) = processLLMResponse(Last(received'),
                                                    activeAgent)
                    /\ providerCalls' = toolCycles + 1
              /\ (EndsByCounter /\ opts.max_turns.n >= 1) =>
                    /\ toolCycles = opts.max_turns.n
                    /\ Len(partialResponse.messages) > 0
                    /\ IsSuffix(partialResponse.messages, h)
                    /\ ~IsReply(Last(h))
                    /\ providerCalls' = toolCycles
              /\ (EndsByCounter /\ opts.max_turns.n < 1) =>
                    /\ toolCycles = 0
                    /\ providerCalls' = 0
                    /\ h = JsonCloneMessages(preCall.messages) ]_vars

\* the turn limit stopped a run whose last cycle ended with the extra
\* messages that a result carried
C39_Witness ==
    /\ pc = "Terminated"
    /\ opts.max_turns = Finite(1)
    /\ toolCycles = 1
    /\ providerCalls = 1
    /\ Last(History) = ExtraMessages[2]
    /\ IsSuffix(partialResponse.messages, History)

\* C40: a run with max_turns 0 or below calls no provider and no function,
\* and resolves with the agent it was called with, a history deep-equal to
\* the input messages and a context store deep-equal to the input store.
C40_NoTurns ==
    (~opts.max_turns.inf /\ opts.max_turns.n <= 0) =>
        /\ providerCalls = 0
        /\ toolCycles = 0
        /\ invoked = 0
        /\ pc \in {"idle", "Running", "Terminated"}
        /\ pc = "Terminated" =>
              /\ response.agent = "A"
              /\ msgHeap[response.messages] = preCall.messages
              /\ ctxHeap[response.context_variables]
                    = preCall.context_variables

(***************************************************************************)
(* Instances of TestFunctions are constructed, and functions taken from    *)
(* them are called.                                                        *)
(***************************************************************************)
idleVars == << providerVars, callVars, received, agentFunctions, registered,
               appended, metadataList, opts, config, msgHeap, ctxHeap,
               preCall, pc, runVars, request, execVars, response, error,
               ghostVars >>

\* new TestFunctions(): the constructor of FunctionBase
NewFunctionBase ==
    /\ Len(instances) < MaxInstances
    /\ LET this == Len(instances) + 1
           made == registerFunctions(methodMetadata, this)
       IN  /\ methodMetadata' = made.heap
           /\ functionMetadata' = made.property
           /\ instances' = Append(instances, made.functions)
    /\ UNCHANGED << idleVars, lastCall >>

\* x.functions[i].func(...)
CallListed(x, i) ==
    /\ lastCall' = [from |-> x, via |-> "functions",
                    func |-> Deref(instances[x][i], methodMetadata).func]
    /\ UNCHANGED << idleVars, methodMetadata, functionMetadata, instances >>

\* x.method.functionMetadata.func(...), for a decorated method
CallOfMethod(x, m) ==
    /\ lastCall' = [from |-> x, via |-> "functionMetadata",
                    func |-> Deref(functionMetadata[m], methodMetadata).func]
    /\ UNCHANGED << idleVars, methodMetadata, functionMetadata, instances >>

RegistryInit ==
    /\ Constructed([a \in Agents |-> List(AgentParams(a).functions)])
    /\ Called([max_turns |-> Infinity, execute_tools |-> TRUE],
              << UserMessage >>, EmptyContext)
    /\ NotStarted
    /\ OneCall
    /\ ProviderIdle
    /\ Configured(NoMaxTurns)

RegistryNext ==
    \/ NewFunctionBase
    \/ \E x \in 1..Len(instances) :
          \E i \in 1..Len(instances[x]) : CallListed(x, i)
    \/ \E x \in 1..Len(instances) :
          \E m \in DecoratedMethods : CallOfMethod(x, m)

RegistrySpec == RegistryInit /\ [][RegistryNext]_vars

\* C37: every entry of the functions list of every instance has, as func,
\* the instance's own method of that name bound to that instance, however
\* many instances of the class were constructed after it, and a function
\* taken from an instance and called runs against that instance.
C37_BoundToOwnInstance ==
    /\ \A x \in 1..Len(instances) :
          \A i \in 1..Len(instances[x]) :
             Deref(instances[x][i], methodMetadata).func
                = Method(SelectSeq(ClassMethods, IsDecorated)[i], x)
    /\ lastCall # NothingCalled => lastCall.func.this = lastCall.from

(***************************************************************************)
(* Runs without max_turns and runs with max_turns 1, of an instance        *)
(* constructed with or without a maxTurns in its config.                   *)
(***************************************************************************)
UnboundedInit ==
    /\ Constructed([a \in Agents |-> List(AgentParams(a).functions)])
    /\ \E max_turns \in {Infinity, Finite(1)} :
          Called([max_turns |-> max_turns, execute_tools |-> TRUE],
                 << UserMessage >>, EmptyContext)
    /\ NotStarted
    /\ OneCall
    /\ ProviderIdle
    /\ \E maxTurns \in {NoMaxTurns} \cup {ConfigMaxTurns(n) : n \in 0..1} :
          Configured(maxTurns)

UnboundedSpec == UnboundedInit /\ [][FiniteNext]_vars

\* the number of the replies received that carry tool-call requests
WithToolCalls(replies) ==
    Cardinality({ i \in 1..Len(replies) :
                    /\ replies[i].defined
                    /\ replies[i].tool_calls.present
                    /\ Len(replies[i].tool_calls.items) > 0 })

\* C34: a run called without max_turns has no turn limit: when the
\* provider has replied with tool-call requests K times, K tool-execution
\* cycles have been started, a run resolves only after a reply without
\* requests, and a maxTurns of the constructor's config changes nothing
\* of this.
C34_Unbounded ==
    opts.max_turns = Infinity =>
       /\ toolCycles = WithToolCalls(received)
       /\ pc = "Terminated" =>
             /\ IsReply(Last(History))
             /\ ToolCallCount(Last(History)) = 0
       /\ (pc = "Running" /\ providerCalls < MaxProviderCalls) =>
             TurnsLeft(turnCount, MaxTurnsOption(opts, config))

\* two cycles were performed by an instance configured with maxTurns 1
C34_Witness ==
    /\ opts.max_turns = Infinity
    /\ config.maxTurns = ConfigMaxTurns(1)
    /\ toolCycles = 2
    /\ turnCount = 2
    /\ pc = "AwaitingCompletion"
    /\ providerCalls = 3

====
